---- MODULE Spec2Model ----
(***************************************************************************)
(* A model of the osmflat compiler (osmflatc): the ordered parallel        *)
(* pipeline (parallel.rs), the id remap table (ids.rs), the string table   *)
(* (strings.rs), the tag serializer and the entity serializers (main.rs).  *)
(* Each component has its own specification over the shared variables.     *)
(***************************************************************************)
EXTENDS Integers, Sequences, FiniteSets, TLC

\* ------------------------------------------------------------------ bounds
\* largest worker count (rayon::current_num_threads()) explored
MaxThreads == 2
\* longest input iterator explored (> 2 * MaxThreads)
MaxItems == 5

\* bits of an id that select the position inside a bucket (24 in ids.rs:
\* ID_BLOCK_SIZE = 1 << 24); the model keeps the structure at this width
IdBits == 8
\* log2 of the bytes per lookup block (4 in ids.rs:
\* DENSE_LOOKUP_BLOCK_SIZE = 1 << 4)
LookupBits == 2
\* highest bucket (x >> IdBits) that receives ids
MaxBucket == 2

\* capacity of a backing buffer of the string table (1024 * 1024 * 4 bytes
\* in strings.rs; the model keeps the buffers at this size)
BufferCapacity == 4
\* longest NUL-free string inserted
MaxStrLen == 2
\* number of strings stored before only repeated inserts are explored
MaxStrings == 3

\* bits an I40 keeps (40 in main.rs: five bytes; the model keeps the packed
\* integers at this width)
I40Bits == 5
\* number of TagSerializer::serialize calls explored on their own
MaxTagCalls == 3

\* number of data blocks of the input file of a compile
MaxBlocks == 3
\* dense-node blocks of an input whose coordinates are scaled
MaxCoordBlocks == 2
\* header blocks of an input
MaxHeaders == 2
\* blocks of a file that build_block_index reads
MaxIndexBlocks == 3
\* tags of the entity that the readers of tags.rs look at
MaxReadTags == 3
\* largest argument given to gcd
MaxGcdArg == 12
\* fields of the PrimitiveBlock given to from_osmdata_blob
MaxBlobFields == 3
\* threads of the rayon pool under build_block_index with the shared iterator
MaxPoolThreads == 3
\* bits of the lat and lon fields of a Node (32 in the archive: i32; the
\* model keeps the fields at this width and counts coordinates in units of
\* 2^(32 - LatLonBits) * 1e-9 degree, so that the ratio of the range of
\* coordinates to the range of the field is the one of the code)
LatLonBits == 12

VARIABLES
    \* ---- the block index built from a shared iterator (src/osmpbf.rs:
    \* build_block_index)
    midx,           \* the file, the iterator, the tasks and the result
    \* ---- a call of a function of the compiler on its own
    call,           \* the function, its arguments and what it returned
    \* ---- reading tags (osmflat/src/tags.rs)
    rd,             \* the archive, the last call and what it returned
    \* ---- the block index (osmflatc/src/osmpbf.rs: build_block_index)
    bidx,           \* the file, the tasks and the descriptors collected
    \* ---- the coordinates of a compile (osmflatc/src/main.rs: run)
    coords,         \* the input, the scale and the rows written
    \* ---- the compile (osmflatc/src/main.rs: run)
    c_phase,        \* where run stands
    c_blocks,       \* data blocks read so far
    run,            \* the locals of run and the columns under construction
    rel_blocks,     \* relation blocks indexed, not yet serialized
    source,         \* what the blocks read so far hold
    \* ---- TagSerializer (osmflatc/src/main.rs)
    tagser,         \* the TagSerializer: tags, tags_index, dedup
    \* ---- StringTable (osmflatc/src/strings.rs)
    stringtable,    \* the StringTable: data, indexed_data, size_in_bytes
    st_phase,       \* "open", or "finalized" once into_bytes has consumed it
    st_hist,        \* every <<string, offset>> that insert has returned
    st_repeated,    \* the last insert was of a string inserted before
    st_blob,        \* the bytes returned by into_bytes
    st_ref,         \* ReferenceStringTable of the test sequence_of_insert
    \* ---- IdTableBuilder / IdTable (osmflatc/src/ids.rs)
    idb,            \* the IdTableBuilder: data, last_id, next_id
    id_phase,       \* "building", "built" or "panicked"
    id_inserted,    \* the ids inserted so far, in insertion order
    id_returned,    \* the dense indexes insert returned, in the same order
    idt_data,       \* IdTable.data: Vec<(u64, IdBlock)>
    id_x,           \* the argument of the last get
    id_res,         \* the result of the last get
    \* ---- parallel_process (osmflatc/src/parallel.rs)
    num_threads,    \* rayon::current_num_threads()
    num_items,      \* length of the input iterator
    iter,           \* position of the shared enumerate() iterator
    next,           \* the counter guarded by the (Mutex, Condvar) pair
    wpc,            \* per worker: where its loop stands
    witem,          \* per worker: the index i of the item it holds
    channel,        \* sync_channel(2 * num_threads): the (i, data) in flight
    pending,        \* BTreeMap of results received ahead of their turn
    next_idx,       \* index the consumer delivers next
    mpc,            \* where the calling thread stands
    data,           \* the data removed from pending, about to be consumed
    ret,            \* what the closure given to crossbeam::scope returned
    consumed,       \* the items consume was invoked on, in call order
    garbage         \* number of values in the garbage sync_channel

parVars == <<num_threads, num_items, iter, next, wpc, witem, channel,
             pending, next_idx, mpc, data, ret, consumed, garbage>>

idVars == <<idb, id_phase, id_inserted,
            id_returned, idt_data, id_x, id_res>>

stVars == <<stringtable, st_phase, st_hist, st_repeated, st_blob, st_ref>>

tsVars == <<tagser>>

cVars == <<c_phase, c_blocks, run, rel_blocks, source>>

coVars == <<coords>>

idxVars == <<bidx>>

rdVars == <<rd>>

callVars == <<call>>

mxVars == <<midx>>

vars == <<parVars, idVars, stVars, tsVars, cVars, coVars, idxVars, rdVars, callVars,
          mxVars>>

\* what the steps of one component leave alone: the other components
parOthers == <<idVars, stVars, tsVars, cVars, coVars, idxVars, rdVars, callVars,
    mxVars>>
idOthers == <<parVars, stVars, tsVars, cVars, coVars, idxVars, rdVars, callVars,
    mxVars>>
stOthers == <<parVars, idVars, tsVars, cVars, coVars, idxVars, rdVars, callVars,
    mxVars>>
tsOthers == <<parVars, idVars, stVars, cVars, coVars, idxVars, rdVars, callVars,
    mxVars>>
cOthers == <<parVars, idVars, stVars, tsVars, coVars, idxVars, rdVars, callVars,
    mxVars>>
coOthers == <<parVars, idVars, stVars, tsVars, cVars, idxVars, rdVars, callVars,
    mxVars>>
idxOthers == <<parVars, idVars, stVars, tsVars, cVars, coVars, rdVars, callVars,
    mxVars>>
rdOthers == <<parVars, idVars, stVars, tsVars, cVars, coVars, idxVars, callVars,
    mxVars>>
callOthers == <<parVars, idVars, stVars, tsVars, cVars, coVars, idxVars, rdVars,
    mxVars>>
mxOthers == <<parVars, idVars, stVars, tsVars, cVars, coVars, idxVars, rdVars,
    callVars>>

\* ================================================================ parallel.rs

Workers == 1..num_threads

\* capacity of both sync_channels
ChannelBound == 2 * num_threads

\* the receiver lives in the closure given to crossbeam::scope: it is dropped
\* when the closure returns (Ok after the loop, or Err through `?`)
ReceiverAlive == ret = "none"

\* a worker's sender clone is dropped when its thread ends (return or unwind);
\* the original sender is dropped right after spawning
SendersAlive == {w \in Workers : wpc[w] \notin {"exit", "panic"}}

\* (mutant) the worker waits until two more items than its own are allowed
MustWaitTwoMore(guard, i) == guard <= i + 2

\* (mutant) the worker goes on when the counter has reached its index
MustWaitBelow(guard, i) == guard < i

\* while *guard <= i { cond.wait(&mut guard) }
MustWait(guard, i) == guard <= i

\* (mutant) the first entry of the map is taken, whatever its index: under
\* the Reverse ordering of the keys that is the largest index received
PendingPopFirst(map, idx) ==
    IF map = {} THEN {} ELSE {CHOOSE i \in map : \A j \in map : j <= i}

\* pending.remove(&Reverse(next_idx)): the entry delivered now, if any
PendingRemove(map, idx) == IF idx \in map THEN {idx} ELSE {}

\* the thread that called parallel_process; the workers are 1..num_threads
MainThread == 0

\* the calls of parallel_process in a compile
Phases == {"nodes", "ways", "relations_index", "relations"}

\* (mutant) the produce closure of the ways phase also interns the strings
\* of its block
ProduceTouchesStringtable(phase) ==
    {<<"data", "read">>}
    \cup (IF phase = "ways"
          THEN {<<"nodes_id_to_idx", "read">>, <<"stringtable", "write">>}
          ELSE {})

\* what the produce closure of a phase reads and writes: read_block(data,
\* &idx) and, for ways, resolve_ways(&block, nodes_id_to_idx)
ProduceTouches(phase) ==
    {<<"data", "read">>}
    \cup (IF phase = "ways" THEN {<<"nodes_id_to_idx", "read">>} ELSE {})

\* what the consume closure of a phase reads and writes: the arguments of
\* serialize_dense_nodes, serialize_ways and serialize_relations, and the
\* builder of build_relations_index
ConsumeTouches(phase) ==
    CASE phase = "nodes" ->
             {<<"stats", "write">>, <<"nodes", "write">>, <<"node_ids", "write">>,
              <<"nodes_id_to_idx_builder", "write">>,
              <<"stringtable", "write">>, <<"tags", "write">>}
      [] phase = "ways" ->
             {<<"stats", "write">>, <<"ways", "write">>, <<"way_ids", "write">>,
              <<"ways_id_to_idx_builder", "write">>,
              <<"stringtable", "write">>, <<"tags", "write">>,
              <<"nodes_index", "write">>}
      [] phase = "relations_index" ->
             {<<"relations_id_to_idx_builder", "write">>}
      [] phase = "relations" ->
             {<<"stats", "write">>, <<"nodes_id_to_idx", "read">>,
              <<"ways_id_to_idx", "read">>, <<"relations_id_to_idx", "read">>,
              <<"stringtable", "write">>, <<"relations", "write">>,
              <<"relation_ids", "write">>, <<"relation_members", "write">>,
              <<"tags", "write">>}

\* what the closure run in a step reads and writes in a phase
Touches(step, phase) ==
    IF step = "produce" THEN ProduceTouches(phase) ELSE ConsumeTouches(phase)

\* the closures running now, each with its thread: a worker between
\* iter.next() and the wait is in produce, the calling thread between the
\* delivery and the garbage send is in consume
Running ==
    {<<w, "produce">> : w \in {v \in Workers : wpc[v] = "produce"}}
    \cup (IF mpc = "consume" THEN {<<MainThread, "consume">>} ELSE {})

ParInit ==
    /\ num_threads \in 1..MaxThreads
    /\ num_items \in 0..MaxItems
    /\ iter = 0
    /\ next = 2 * num_threads
    /\ wpc = [w \in Workers |-> "lock_iter"]
    /\ witem = [w \in Workers |-> 0]
    /\ channel = <<>>
    /\ pending = {}
    /\ next_idx = 0
    /\ mpc = "recv"
    /\ data = 0
    /\ ret = "none"
    /\ consumed = <<>>
    /\ garbage = 0

\* match iter.lock().next() { None => break, Some(x) => x }
WorkerNext(w) ==
    /\ wpc[w] = "lock_iter"
    /\ IF iter < num_items
       THEN /\ witem' = [witem EXCEPT ![w] = iter]
            /\ iter' = iter + 1
            /\ wpc' = [wpc EXCEPT ![w] = "produce"]
       ELSE /\ wpc' = [wpc EXCEPT ![w] = "exit"]
            /\ UNCHANGED <<witem, iter>>
    /\ UNCHANGED <<num_threads, num_items, next, channel, pending,
                   next_idx, mpc, data, ret, consumed, garbage>>
    /\ UNCHANGED parOthers

\* let data = produce(item);
WorkerProduce(w) ==
    /\ wpc[w] = "produce"
    /\ wpc' = [wpc EXCEPT ![w] = "wait"]
    /\ UNCHANGED <<num_threads, num_items, iter, next, witem, channel,
                   pending, next_idx, mpc, data, ret, consumed, garbage>>
    /\ UNCHANGED parOthers

\* the wait loop on the condition variable ends once *guard > i
WorkerWait(w) ==
    /\ wpc[w] = "wait"
    /\ ~MustWait(next, witem[w])
    /\ wpc' = [wpc EXCEPT ![w] = "send"]
    /\ UNCHANGED <<num_threads, num_items, iter, next, witem, channel,
                   pending, next_idx, mpc, data, ret, consumed, garbage>>
    /\ UNCHANGED parOthers

\* sender.send((i, data)).unwrap(): blocks while the channel is full, fails
\* (and unwrap panics) once the receiver is dropped
WorkerSend(w) ==
    /\ wpc[w] = "send"
    /\ IF ReceiverAlive
       THEN /\ Len(channel) < ChannelBound
            /\ channel' = Append(channel, witem[w])
            /\ wpc' = [wpc EXCEPT ![w] = "lock_iter"]
       ELSE /\ wpc' = [wpc EXCEPT ![w] = "panic"]
            /\ UNCHANGED channel
    /\ UNCHANGED <<num_threads, num_items, iter, next, witem,
                   pending, next_idx, mpc, data, ret, consumed, garbage>>
    /\ UNCHANGED parOthers

\* for result in receiver { pending.insert(Reverse(result.0), result.1); ...
\* the iteration ends when the channel is empty and every sender is dropped
MainRecv ==
    /\ mpc = "recv"
    /\ IF channel # <<>>
       THEN /\ pending' = pending \cup {Head(channel)}
            /\ channel' = Tail(channel)
            /\ mpc' = "deliver"
            /\ UNCHANGED ret
       ELSE /\ SendersAlive = {}
            /\ mpc' = "join"
            /\ ret' = "Ok"
            /\ UNCHANGED <<pending, channel>>
    /\ UNCHANGED <<num_threads, num_items, iter, next, wpc, witem,
                   next_idx, data, consumed, garbage>>
    /\ UNCHANGED parOthers

\* while let Some(data) = pending.remove(&Reverse(next_idx)) {
\*     *guard += 1; notify_all(); next_idx += 1;
MainDeliver ==
    /\ mpc = "deliver"
    /\ IF PendingRemove(pending, next_idx) # {}
       THEN /\ data' = CHOOSE d \in PendingRemove(pending, next_idx) : TRUE
            /\ pending' = pending \ PendingRemove(pending, next_idx)
            /\ next' = next + 1
            /\ next_idx' = next_idx + 1
            /\ mpc' = "consume"
       ELSE /\ mpc' = "recv"
            /\ UNCHANGED <<data, pending, next, next_idx>>
    /\ UNCHANGED <<num_threads, num_items, iter, wpc, witem, channel,
                   ret, consumed, garbage>>
    /\ UNCHANGED parOthers

\* let garbage = consume(data)?;  consume returns Ok(garbage) or Err: on Err
\* the closure returns, which drops receiver, garbage_sender and pending
MainConsume ==
    /\ mpc = "consume"
    /\ consumed' = Append(consumed, data)
    /\ \E result \in {"Ok", "Err"} :
           IF result = "Err"
           THEN mpc' = "join" /\ ret' = "Err"
           ELSE mpc' = "garbage_send" /\ UNCHANGED ret
    /\ UNCHANGED <<num_threads, num_items, iter, next, wpc, witem,
                   channel, pending, next_idx, data, garbage>>
    /\ UNCHANGED parOthers

\* garbage_sender.send(garbage).unwrap(): blocks while the channel is full
MainGarbageSend ==
    /\ mpc = "garbage_send"
    /\ garbage < ChannelBound
    /\ garbage' = garbage + 1
    /\ mpc' = "deliver"
    /\ UNCHANGED <<num_threads, num_items, iter, next, wpc, witem,
                   channel, pending, next_idx, data, ret, consumed>>
    /\ UNCHANGED parOthers

\* the drop thread: for garbage in garbage_receiver { drop(garbage) }
GarbageDrop ==
    /\ garbage > 0
    /\ garbage' = garbage - 1
    /\ UNCHANGED <<num_threads, num_items, iter, next, wpc, witem,
                   channel, pending, next_idx, mpc, data, ret, consumed>>
    /\ UNCHANGED parOthers

\* crossbeam::scope joins every spawned thread once the closure has returned;
\* a panicked thread makes it return Err, on which .expect("thread panicked")
\* panics; otherwise the closure's result is the result of the call
ScopeJoin ==
    /\ mpc = "join"
    /\ SendersAlive = {}
    /\ mpc' = IF \E w \in Workers : wpc[w] = "panic" THEN "panicked"
              ELSE "returned"
    /\ UNCHANGED <<num_threads, num_items, iter, next, wpc, witem,
                   channel, pending, next_idx, data, ret, consumed, garbage>>
    /\ UNCHANGED parOthers

ParNext ==
    \/ \E w \in Workers : WorkerNext(w)
    \/ \E w \in Workers : WorkerProduce(w)
    \/ \E w \in Workers : WorkerWait(w)
    \/ \E w \in Workers : WorkerSend(w)
    \/ MainRecv
    \/ MainDeliver
    \/ MainConsume
    \/ MainGarbageSend
    \/ GarbageDrop
    \/ ScopeJoin


\* ===================================================================== ids.rs

ID_BLOCK_SIZE == 2 ^ IdBits
DENSE_LOOKUP_BLOCK_SIZE == 2 ^ LookupBits

\* Option<u64> and the outcome of a call that may panic
None == [tag |-> "None", val |-> 0]
Some(v) == [tag |-> "Some", val |-> v]
Panic == [tag |-> "Panic", val |-> 0]
\* no call has been made yet
NoCall == [tag |-> "NoCall", val |-> 0]

\* IdBlock::Sparse(ids) and IdBlock::Dense { includes, offsets }
Sparse(ids) == [kind |-> "Sparse", ids |-> ids, includes |-> <<>>, offsets |-> <<>>]
Dense(includes, offsets) ==
    [kind |-> "Dense", ids |-> <<>>, includes |-> includes, offsets |-> offsets]

\* byte & (1 << k) != 0
BitIsSet(byte, k) == (byte \div (2 ^ k)) % 2 = 1

\* u8::count_ones
CountOnes(byte) == Cardinality({k \in 0..7 : BitIsSet(byte, k)})

\* includes[lo..hi].iter().map(|x| x.count_ones() as u32).sum()   (0-based)
RECURSIVE SumOnes(_, _, _)
SumOnes(includes, lo, hi) ==
    IF lo >= hi THEN 0
    ELSE CountOnes(includes[lo + 1]) + SumOnes(includes, lo + 1, hi)

\* Dense arm of IdBlock::insert: includes[x / 8] |= 1 << (x % 8)
DenseInsert(blk, x) ==
    [blk EXCEPT !.includes[(x \div 8) + 1] =
        IF BitIsSet(@, x % 8) THEN @ ELSE @ + 2 ^ (x % 8)]

\* for id in ids { dense.insert(*id) }
RECURSIVE DenseInsertAll(_, _)
DenseInsertAll(blk, ids) ==
    IF ids = <<>> THEN blk
    ELSE DenseInsertAll(DenseInsert(blk, Head(ids)), Tail(ids))

\* IdBlock::insert: a sparse block is turned into a bitset once it is as
\* large as the bitset would be
IdBlockInsert(blk, x) ==
    IF blk.kind = "Sparse"
    THEN IF Len(blk.ids) * 8 < ID_BLOCK_SIZE \div 8
         THEN Sparse(Append(blk.ids, x))
         ELSE DenseInsert(
                 DenseInsertAll(
                     Dense([i \in 1..(ID_BLOCK_SIZE \div 8) |-> 0],
                           [i \in 1..((ID_BLOCK_SIZE \div 8) \div DENSE_LOOKUP_BLOCK_SIZE) |-> 0]),
                     blk.ids),
                 x)
    ELSE DenseInsert(blk, x)

\* second loop of IdBlock::finalize: offsets[block + 1] += offsets[block]
RECURSIVE PrefixSums(_, _)
PrefixSums(offsets, block) ==
    IF block >= Len(offsets) - 1 THEN offsets
    ELSE PrefixSums([offsets EXCEPT ![block + 2] = @ + offsets[block + 1]], block + 1)

\* IdBlock::finalize: per lookup block the number of set bits before it
IdBlockFinalize(blk) ==
    IF blk.kind = "Dense"
    THEN LET counts ==
                 [b \in 1..Len(blk.offsets) |->
                     IF b = 1 THEN blk.offsets[1]
                     ELSE SumOnes(blk.includes,
                                  (b - 2) * DENSE_LOOKUP_BLOCK_SIZE,
                                  (b - 1) * DENSE_LOOKUP_BLOCK_SIZE)]
         IN  Dense(blk.includes, PrefixSums(counts, 0))
    ELSE blk

\* IdBlock::count
IdBlockCount(blk) ==
    IF blk.kind = "Sparse" THEN Len(blk.ids)
    ELSE blk.offsets[Len(blk.offsets)]
         + SumOnes(blk.includes,
                   Len(blk.includes) - DENSE_LOOKUP_BLOCK_SIZE, Len(blk.includes))

\* ids.binary_search(&x): Ok(position) or Err, on a sorted slice (0-based)
RECURSIVE BinarySearch(_, _, _, _)
BinarySearch(ids, x, left, right) ==
    IF left >= right THEN None
    ELSE LET mid == left + (right - left) \div 2
         IN  IF ids[mid + 1] = x THEN Some(mid)
             ELSE IF ids[mid + 1] < x THEN BinarySearch(ids, x, mid + 1, right)
             ELSE BinarySearch(ids, x, left, mid)

\* the loop of the Dense arm of IdBlock::pos: the set bits in [from, to)
RECURSIVE BitsBefore(_, _, _)
BitsBefore(includes, from, to) ==
    IF from >= to THEN 0
    ELSE (IF BitIsSet(includes[(from \div 8) + 1], from % 8) THEN 1 ELSE 0)
         + BitsBefore(includes, from + 1, to)

\* IdBlock::pos
IdBlockPos(blk, x) ==
    IF blk.kind = "Sparse" THEN BinarySearch(blk.ids, x, 0, Len(blk.ids))
    ELSE IF ~BitIsSet(blk.includes[(x \div 8) + 1], x % 8) THEN None
    ELSE LET offset_pos == (x \div 8) \div DENSE_LOOKUP_BLOCK_SIZE
             start_block == offset_pos * 8 * DENSE_LOOKUP_BLOCK_SIZE
             rest == x % (8 * DENSE_LOOKUP_BLOCK_SIZE)
         IN  Some(blk.offsets[offset_pos + 1]
                  + BitsBefore(blk.includes, start_block, start_block + rest))

\* self.data.resize(id_set + 1, IdBlock::Sparse(Vec::new())) when too short
Resize(blocks, id_set) ==
    IF Len(blocks) <= id_set
    THEN blocks \o [i \in 1..(id_set + 1 - Len(blocks)) |-> Sparse(<<>>)]
    ELSE blocks

\* the scan of IdTableBuilder::build: each finalized block with the number
\* of ids in the blocks before it
RECURSIVE BuildScan(_, _)
BuildScan(blocks, state) ==
    IF blocks = <<>> THEN <<>>
    ELSE LET blk == IdBlockFinalize(Head(blocks))
         IN  <<[offset |-> state, block |-> blk]>>
             \o BuildScan(Tail(blocks), state + IdBlockCount(blk))

\* if id_set > self.data.len() { return None; }
GetGuard(id_set, len) == id_set > len

\* IdTable::get; indexing self.data at or past its length panics
IdTableGet(table, x) ==
    LET id_set == x \div ID_BLOCK_SIZE
    IN  IF GetGuard(id_set, Len(table)) THEN None
        ELSE IF id_set >= Len(table) THEN Panic
        ELSE LET pos == IdBlockPos(table[id_set + 1].block, x % ID_BLOCK_SIZE)
             IN  IF pos.tag = "Some"
                 THEN Some(table[id_set + 1].offset + pos.val)
                 ELSE None

\* ---- inputs of the id table
\* a sparse block holds at most this many ids before it is turned dense
SparseCapacity == ((ID_BLOCK_SIZE \div 8) + 7) \div 8

\* positions inside a bucket, spread over the lookup blocks; one more than
\* a sparse block can hold
LowChoices ==
    {(k * (ID_BLOCK_SIZE - 1)) \div (SparseCapacity + 1) : k \in 0..(SparseCapacity + 1)}

\* ids offered to insert: bucket 0 can grow dense, bucket MaxBucket stays
\* sparse, the buckets between them stay empty
IdChoices ==
    LowChoices \cup {MaxBucket * ID_BLOCK_SIZE, MaxBucket * ID_BLOCK_SIZE + 1,
                     (MaxBucket + 1) * ID_BLOCK_SIZE - 1}

\* ids offered to get: the ids above, their neighbours, and the first id of
\* every bucket up to two past the last one
GetChoices ==
    IdChoices \cup {x + 1 : x \in IdChoices}
              \cup {b * ID_BLOCK_SIZE : b \in 0..(MaxBucket + 2)}

\* IdTableBuilder::new (Default)
IdTableBuilderNew == [data |-> <<>>, last_id |-> None, next_id |-> 0]

\* (mutant) the id inserted last is accepted again
InsertAssertsNotLess(b, x) == b.last_id.tag = "Some" => b.last_id.val <= x

\* assert!(last_id < x, "Ids are expected to be sorted")
InsertAsserts(b, x) == b.last_id.tag = "Some" => b.last_id.val < x

\* (mutant) next_id is not advanced
BuilderInsertNoCount(b, x) ==
    LET id_set == x \div ID_BLOCK_SIZE
        resized == Resize(b.data, id_set)
    IN  [data |-> [resized EXCEPT ![id_set + 1] = IdBlockInsert(@, x % ID_BLOCK_SIZE)],
         last_id |-> Some(x),
         next_id |-> b.next_id]

\* IdTableBuilder::insert, past its assertion: the builder afterwards (the
\* index returned is the next_id before)
BuilderInsert(b, x) ==
    LET id_set == x \div ID_BLOCK_SIZE
        resized == Resize(b.data, id_set)
    IN  [data |-> [resized EXCEPT ![id_set + 1] = IdBlockInsert(@, x % ID_BLOCK_SIZE)],
         last_id |-> Some(x),
         next_id |-> b.next_id + 1]

\* IdTableBuilder::build
BuilderBuild(b) == BuildScan(b.data, 0)

IdInit ==
    /\ idb = IdTableBuilderNew
    /\ id_phase = "building"
    /\ id_inserted = <<>>
    /\ id_returned = <<>>
    /\ idt_data = <<>>
    /\ id_x = 0
    /\ id_res = NoCall

\* a call of IdTableBuilder::insert
IdInsert(x) ==
    /\ id_phase = "building"
    /\ IF InsertAsserts(idb, x)
       THEN /\ idb' = BuilderInsert(idb, x)
            /\ id_inserted' = Append(id_inserted, x)
            /\ id_returned' = Append(id_returned, idb.next_id)
            /\ UNCHANGED id_phase
       ELSE /\ id_phase' = "panicked"
            /\ UNCHANGED <<idb, id_inserted, id_returned>>
    /\ UNCHANGED <<idt_data, id_x, id_res>>
    /\ UNCHANGED idOthers

\* a call of IdTableBuilder::build
IdBuild ==
    /\ id_phase = "building"
    /\ idt_data' = BuilderBuild(idb)
    /\ id_phase' = "built"
    /\ UNCHANGED <<idb, id_inserted, id_returned, id_x, id_res>>
    /\ UNCHANGED idOthers

\* a call of IdTable::get
IdGet(x) ==
    /\ id_phase = "built"
    /\ id_x' = x
    /\ id_res' = IdTableGet(idt_data, x)
    /\ UNCHANGED <<idb, id_phase, id_inserted, id_returned, idt_data>>
    /\ UNCHANGED idOthers

IdNext ==
    \/ \E x \in IdChoices : IdInsert(x)
    \/ IdBuild
    \/ \E x \in GetChoices : IdGet(x)

\* ================================================================= strings.rs

\* (mutant) the key read as the rest of the buffer, &buffer[pos..], with its
\* terminator, instead of up to the terminator
CStrWholeTail(bytes, pos) == SubSeq(bytes, pos, Len(bytes))

\* TerminatedStringPtr::as_bytes: CStr::from_ptr(ptr).to_bytes(), the bytes
\* from the pointer up to the first NUL (pos is 1-based)
RECURSIVE CStr(_, _)
CStr(bytes, pos) ==
    IF bytes[pos] = 0 THEN <<>> ELSE <<bytes[pos]>> \o CStr(bytes, pos + 1)

\* the bytes a key of indexed_data denotes
KeyBytes(st, key) == CStr(st.data[key.buf].bytes, key.pos)

\* StringTable::new (Default)
StringTableNew ==
    [data |-> <<>>, indexed_data |-> {}, size_in_bytes |-> 0, moved |-> FALSE]

\* self.indexed_data.get(s.as_bytes()): the entries whose key equals s
StGet(st, s) == {e \in st.indexed_data : KeyBytes(st, e) = s}

\* (mutant) the terminator is not counted: x.len() + s.len() <= x.capacity()
NeedsNewBufferNoNul(st, s) ==
    \/ st.data = <<>>
    \/ ~(Len(st.data[Len(st.data)].bytes) + Len(s) <= st.data[Len(st.data)].capacity)

\* self.data.last().filter(|x| x.len() + s.len() < x.capacity()).is_none()
NeedsNewBuffer(st, s) ==
    \/ st.data = <<>>
    \/ ~(Len(st.data[Len(st.data)].bytes) + Len(s) < st.data[Len(st.data)].capacity)

\* Vec::with_capacity((1024 * 1024 * 4).max(s.len() + 1))
NewBuffer(s) ==
    [bytes |-> <<>>,
     capacity |-> IF BufferCapacity >= Len(s) + 1 THEN BufferCapacity ELSE Len(s) + 1]

\* (mutant) the index taken as the position inside the current buffer
IdxIsBufferPos(st, pos) == pos

\* let idx = self.size_in_bytes;
NewIdx(st, pos) == st.size_in_bytes

\* self.indexed_data.insert(key, idx): an equal key keeps its place and
\* gets the new value
MapInsert(st, key, idx) ==
    LET same == {e \in st.indexed_data : KeyBytes(st, e) = KeyBytes(st, key)}
    IN  IF same = {}
        THEN st.indexed_data \cup {[buf |-> key.buf, pos |-> key.pos, idx |-> idx]}
        ELSE (st.indexed_data \ same) \cup {[e EXCEPT !.idx = idx] : e \in same}

\* StringTable::insert: the table afterwards and the index returned
StringTableInsert(st, s) ==
    IF StGet(st, s) # {}
    THEN [st |-> st, idx |-> (CHOOSE e \in StGet(st, s) : TRUE).idx]
    ELSE LET data1 == IF NeedsNewBuffer(st, s)
                      THEN Append(st.data, NewBuffer(s)) ELSE st.data
             last == Len(data1)
             pos == Len(data1[last].bytes)
             idx == NewIdx(st, pos)
             st1 == [st EXCEPT
                        !.data = [data1 EXCEPT ![last].bytes = (@ \o s) \o <<0>>],
                        !.moved = @ \/ (pos + Len(s) + 1 > data1[last].capacity)]
         IN  [st |-> [st1 EXCEPT
                         !.indexed_data = MapInsert(st1, [buf |-> last, pos |-> pos + 1], idx),
                         !.size_in_bytes = @ + Len(s) + 1],
              idx |-> idx]

\* (mutant) the buffers are taken from the last to the first
RECURSIVE ExtendAllBackwards(_)
ExtendAllBackwards(buffers) ==
    IF buffers = <<>> THEN <<>>
    ELSE ExtendAllBackwards(Tail(buffers)) \o Head(buffers).bytes

\* the loop of StringTable::into_bytes: the buffers one after the other
RECURSIVE ExtendAll(_)
ExtendAll(buffers) ==
    IF buffers = <<>> THEN <<>>
    ELSE Head(buffers).bytes \o ExtendAll(Tail(buffers))

\* StringTable::into_bytes
StringTableIntoBytes(st) == ExtendAll(st.data)

\* ---- inputs of the string table
\* the bytes of the NUL-free strings
StrAlphabet == {1, 2}

\* every string over the alphabet of at most n bytes
RECURSIVE StringsUpTo(_)
StringsUpTo(n) ==
    IF n = 0 THEN {<<>>}
    ELSE StringsUpTo(n - 1)
         \cup {Append(t, c) : t \in {u \in StringsUpTo(n - 1) : Len(u) = n - 1},
                              c \in StrAlphabet}

\* a str may hold NUL bytes: two such strings are offered to insert too
NulStrChoices == {<<0>>, <<1, 0, 2>>}

\* a string that does not fit a buffer of the usual capacity
LargeStr == [i \in 1..(BufferCapacity + 1) |-> 1]

StrChoices == StringsUpTo(MaxStrLen) \cup NulStrChoices \cup {LargeStr}

NulFree(s) == \A i \in 1..Len(s) : s[i] # 0

\* ReferenceStringTable::insert of the tests: a word not seen before is
\* added to the bytes, followed by NUL
ReferenceInsert(ref, input) ==
    IF input \in ref.words THEN ref
    ELSE [words |-> ref.words \cup {input}, data |-> (ref.data \o input) \o <<0>>]

StInit ==
    /\ stringtable = StringTableNew
    /\ st_phase = "open"
    /\ st_hist = {}
    /\ st_repeated = FALSE
    /\ st_blob = <<>>
    /\ st_ref = [words |-> {}, data |-> <<>>]

\* a call of StringTable::insert
StInsert(s) ==
    /\ st_phase = "open"
    /\ Cardinality(st_hist) < MaxStrings \/ StGet(stringtable, s) # {}
    /\ LET r == StringTableInsert(stringtable, s)
       IN  /\ stringtable' = r.st
           /\ st_hist' = st_hist \cup {<<s, r.idx>>}
           /\ st_repeated' = \E p \in st_hist : p[1] = s
           /\ st_ref' = ReferenceInsert(st_ref, s)
    /\ UNCHANGED <<st_phase, st_blob>>
    /\ UNCHANGED stOthers

\* a call of StringTable::into_bytes
StIntoBytes ==
    /\ st_phase = "open"
    /\ st_blob' = StringTableIntoBytes(stringtable)
    /\ st_phase' = "finalized"
    /\ UNCHANGED <<stringtable, st_hist, st_repeated, st_ref>>
    /\ UNCHANGED stOthers

StNext ==
    \/ \E s \in StrChoices : StInsert(s)
    \/ StIntoBytes

\* ==================================================== main.rs: TagSerializer

\* I40::from_u64: the five low bytes of x
I40FromU64(x) == x % (2 ^ I40Bits)

\* debug_assert_eq!((x[5], x[6], x[7]), (0, 0, 0)) in I40::from_u64
I40Fits(x) == x < 2 ^ I40Bits

\* I40::to_u64: the five bytes extended with zeros
I40ToU64(x) == x

\* TagSerializer::new
TagSerializerNew == [tags |-> <<>>, tags_index |-> <<>>, dedup |-> {}]

\* (mutant) the entry is looked up by the key offset alone
DedupEntryOfKey(ts, key_idx, val_idx) ==
    {e \in ts.dedup : e.key[1] = I40FromU64(key_idx)}

\* self.dedup.entry((I40::from_u64(key_idx), I40::from_u64(val_idx)))
DedupEntry(ts, key_idx, val_idx) ==
    {e \in ts.dedup : e.key = <<I40FromU64(key_idx), I40FromU64(val_idx)>>}

\* (mutant) the position of a new tag is not recorded
DedupInsertForgotten(dedup, key_idx, val_idx, idx) == dedup

\* entry.insert(I40::from_u64(idx)) on the vacant entry
DedupInsert(dedup, key_idx, val_idx, idx) ==
    dedup \cup {[key |-> <<I40FromU64(key_idx), I40FromU64(val_idx)>>,
                 pos |-> I40FromU64(idx)]}

\* TagSerializer::serialize
TagSerialize(ts, key_idx, val_idx) ==
    IF DedupEntry(ts, key_idx, val_idx) # {}
    THEN LET idx == I40ToU64((CHOOSE e \in DedupEntry(ts, key_idx, val_idx) : TRUE).pos)
         IN  [ts EXCEPT !.tags_index = Append(@, idx)]
    ELSE LET idx == Len(ts.tags)
         IN  [tags |-> Append(ts.tags, [key_idx |-> key_idx, value_idx |-> val_idx]),
              tags_index |-> Append(ts.tags_index, idx),
              dedup |-> DedupInsert(ts.dedup, key_idx, val_idx, idx)]

\* the debug assertions of I40::from_u64 that a call of serialize evaluates
TagSerializeFits(ts, key_idx, val_idx) ==
    /\ I40Fits(key_idx)
    /\ I40Fits(val_idx)
    /\ DedupEntry(ts, key_idx, val_idx) = {} => I40Fits(Len(ts.tags))

\* (mutant) the length of the Tag column is taken
NextIndexOfTags(ts) == Len(ts.tags)

\* TagSerializer::next_index
NextIndex(ts) == Len(ts.tags_index)

\* ---- the tag serializer on its own
\* string offsets offered to serialize: small ones and the first that does
\* not fit an I40
OffsetChoices == {0, 2, 5, 2 ^ I40Bits}

TsInit == tagser = [ts |-> TagSerializerNew, panicked |-> FALSE, calls |-> <<>>]

\* a call of TagSerializer::serialize; where a debug assertion fails, a
\* build with debug assertions panics and one without goes on
TsSerialize(key_idx, val_idx) ==
    /\ ~tagser.panicked
    /\ Len(tagser.ts.tags_index) < MaxTagCalls
    /\ \/ tagser' = [tagser EXCEPT !.ts = TagSerialize(@, key_idx, val_idx),
                                    !.calls = Append(@, <<key_idx, val_idx>>)]
       \/ /\ ~TagSerializeFits(tagser.ts, key_idx, val_idx)
          /\ tagser' = [tagser EXCEPT !.panicked = TRUE]
    /\ UNCHANGED tsOthers

TsNext == \E k, v \in OffsetChoices : TsSerialize(k, v)

\* ========================================================= main.rs: compile

\* "osmflatc"
OSMFLATC == <<111, 115, 109, 102, 108, 97, 116, 99>>

\* Stats::default
StatsDefault ==
    [num_nodes |-> 0, num_ways |-> 0, num_relations |-> 0,
     num_unresolved_node_ids |-> 0, num_unresolved_way_ids |-> 0,
     num_unresolved_rel_ids |-> 0]

\* Stats::add_assign
StatsAdd(a, b) ==
    [num_nodes |-> a.num_nodes + b.num_nodes,
     num_ways |-> a.num_ways + b.num_ways,
     num_relations |-> a.num_relations + b.num_relations,
     num_unresolved_node_ids |-> a.num_unresolved_node_ids + b.num_unresolved_node_ids,
     num_unresolved_way_ids |-> a.num_unresolved_way_ids + b.num_unresolved_way_ids,
     num_unresolved_rel_ids |-> a.num_unresolved_rel_ids + b.num_unresolved_rel_ids]

\* the locals of run after its first statements: an empty string table, an
\* empty tag serializer, no rows; node_ids, way_ids and relation_ids are the
\* vectors of the ids archive, written when args.ids is set; block_stats is the Stats a serialize_*
\* call builds, panicked and debug_failed record a panic and a failed debug
\* assertion inside a call
RunNew ==
    [stringtable |-> StringTableNew,
     tags |-> TagSerializerNew,
     stats |-> StatsDefault,
     block_stats |-> StatsDefault,
     nodes |-> <<>>, ways |-> <<>>, relations |-> <<>>,
     nodes_index |-> <<>>, relation_members |-> <<>>,
     args_ids |-> FALSE,
     node_ids |-> <<>>, way_ids |-> <<>>, relation_ids |-> <<>>,
     nodes_id_to_idx |-> IdTableBuilderNew,
     ways_id_to_idx |-> IdTableBuilderNew,
     nodes_table |-> <<>>, ways_table |-> <<>>, relations_table |-> <<>>,
     blob |-> <<>>,
     log |-> <<>>,
     panicked |-> FALSE, debug_failed |-> FALSE]

\* a row as ExternalVector::grow hands it out: all fields zero
NodeNew == [tag_first_idx |-> 0]
WayNew == [tag_first_idx |-> 0, ref_first_idx |-> 0]
RelationNew == [tag_first_idx |-> 0]

RunPanic(c) == [c EXCEPT !.panicked = TRUE]

\* the steps run has taken, in their order: c.log with the steps es added
Logged(c, es) == [c EXCEPT !.log = @ \o es]

\* if let Some(ids) = node_ids { ids.close()?; }
CloseIds(c, name) == IF c.args_ids THEN <<name>> ELSE <<>>

\* (mutant) the string table is written before the tag vectors are closed
FinalizeUnclosedTags(c) ==
    [Logged(c, <<"set_stringtable", "tags.close", "tags_index.close", "open">>)
        EXCEPT !.blob = StringTableIntoBytes(c.stringtable)]

\* the end of run: tags.close(), set_stringtable(into_bytes()), Osm::open
Finalize(c) ==
    [Logged(c, <<"tags.close", "tags_index.close", "set_stringtable", "open">>)
        EXCEPT !.blob = StringTableIntoBytes(c.stringtable)]

\* add_string_table: the table afterwards and the references returned
RECURSIVE AddStringTable(_, _)
AddStringTable(st, strs) ==
    IF strs = <<>> THEN [st |-> st, refs |-> <<>>]
    ELSE LET r == StringTableInsert(st, Head(strs))
             rest == AddStringTable(r.st, Tail(strs))
         IN  [st |-> rest.st, refs |-> <<r.idx>> \o rest.refs]

\* (mutant) the string ids of the block are stored, not their references
SerializeTagLocalIds(c, refs, k, v) ==
    IF k >= Len(refs) \/ v >= Len(refs) THEN RunPanic(c)
    ELSE [c EXCEPT !.tags = TagSerialize(@, k, v)]

\* tags.serialize(string_refs[k], string_refs[v]); an index past the end of
\* string_refs panics
SerializeTag(c, refs, k, v) ==
    IF k >= Len(refs) \/ v >= Len(refs) THEN RunPanic(c)
    ELSE [c EXCEPT !.tags = TagSerialize(@, refs[k + 1], refs[v + 1]),
                   !.debug_failed =
                       @ \/ ~TagSerializeFits(c.tags, refs[k + 1], refs[v + 1])]

\* the loop over the keys_vals of one dense node, from tags_offset to the
\* separator; reading keys_vals past its end panics
RECURSIVE DenseTagLoop(_, _, _, _)
DenseTagLoop(c, keys_vals, refs, tags_offset) ==
    IF tags_offset >= Len(keys_vals)
    THEN [c |-> RunPanic(c), tags_offset |-> tags_offset]
    ELSE IF keys_vals[tags_offset + 1] = 0
    THEN [c |-> c, tags_offset |-> tags_offset + 1]
    ELSE IF tags_offset + 1 >= Len(keys_vals)
    THEN [c |-> RunPanic(c), tags_offset |-> tags_offset + 1]
    ELSE LET c1 == SerializeTag(c, refs, keys_vals[tags_offset + 1],
                                keys_vals[tags_offset + 2])
         IN  IF c1.panicked THEN [c |-> c1, tags_offset |-> tags_offset + 2]
             ELSE DenseTagLoop(c1, keys_vals, refs, tags_offset + 2)

\* the loop over the nodes of one dense group, from node i on; id is the
\* id before node i
RECURSIVE DenseNodeLoop(_, _, _, _, _, _)
DenseNodeLoop(c, dense, refs, i, id, tags_offset) ==
    IF i > Len(dense.id) THEN [c |-> c, tags_offset |-> tags_offset]
    ELSE LET id1 == id + dense.id[i]
         IN  IF \/ ~InsertAsserts(c.nodes_id_to_idx, id1)
                \/ c.nodes_id_to_idx.next_id # Len(c.nodes)
             THEN [c |-> RunPanic(c), tags_offset |-> tags_offset]
             ELSE LET c1 == [c EXCEPT !.nodes_id_to_idx = BuilderInsert(@, id1),
                                      !.nodes = Append(@, NodeNew),
                                      !.node_ids = IF c.args_ids THEN Append(@, id1)
                                                   ELSE @]
                      row == Len(c1.nodes)
                  IN  IF tags_offset < Len(dense.keys_vals)
                      THEN LET c2 == [c1 EXCEPT !.nodes[row].tag_first_idx =
                                                    NextIndex(c1.tags)]
                               r == DenseTagLoop(c2, dense.keys_vals, refs, tags_offset)
                           IN  IF r.c.panicked THEN r
                               ELSE DenseNodeLoop(r.c, dense, refs, i + 1, id1,
                                                  r.tags_offset)
                      ELSE DenseNodeLoop(c1, dense, refs, i + 1, id1, tags_offset)

\* the loop over the groups of a dense-nodes block
RECURSIVE DenseGroupLoop(_, _, _)
DenseGroupLoop(c, groups, refs) ==
    IF groups = <<>> THEN c
    ELSE LET dense == Head(groups).dense
             r == DenseNodeLoop(c, dense, refs, 1, 0, 0)
         IN  IF r.c.panicked THEN r.c
             ELSE IF r.tags_offset # Len(dense.keys_vals) THEN RunPanic(r.c)
             ELSE DenseGroupLoop(
                      [r.c EXCEPT !.block_stats.num_nodes = @ + Len(dense.id)],
                      Tail(groups), refs)

\* serialize_dense_nodes: the Stats returned are c.block_stats
SerializeDenseNodes(c, block) ==
    LET r == AddStringTable(c.stringtable, block.stringtable)
    IN  DenseGroupLoop([c EXCEPT !.stringtable = r.st, !.block_stats = StatsDefault],
                       block.primitivegroup, r.refs)

\* the ways, or the relations, of all groups of a block in the order the
\* nested loops visit them
RECURSIVE GroupWays(_)
GroupWays(groups) ==
    IF groups = <<>> THEN <<>> ELSE Head(groups).ways \o GroupWays(Tail(groups))

RECURSIVE GroupRelations(_)
GroupRelations(groups) ==
    IF groups = <<>> THEN <<>>
    ELSE Head(groups).relations \o GroupRelations(Tail(groups))

\* idx.is_none() as usize
IsNone(idx) == IF idx.tag = "None" THEN 1 ELSE 0

\* the loop over the refs of one way in resolve_ways; r holds the result
\* vector, the Stats counter and whether get panicked
\* (mutant) the deltas are taken for the ids
RECURSIVE ResolveRefsNoDelta(_, _, _, _)
ResolveRefsNoDelta(table, refs, node_ref, r) ==
    IF refs = <<>> \/ r.panicked THEN r
    ELSE LET idx == IdTableGet(table, Head(refs))
         IN  IF idx.tag = "Panic" THEN [r EXCEPT !.panicked = TRUE]
             ELSE ResolveRefsNoDelta(table, Tail(refs), node_ref,
                                     [r EXCEPT !.result = Append(@, idx),
                                               !.num_unresolved_node_ids = @ + IsNone(idx)])

RECURSIVE ResolveRefs(_, _, _, _)
ResolveRefs(table, refs, node_ref, r) ==
    IF refs = <<>> \/ r.panicked THEN r
    ELSE LET ref1 == node_ref + Head(refs)
             idx == IdTableGet(table, ref1)
         IN  IF idx.tag = "Panic" THEN [r EXCEPT !.panicked = TRUE]
             ELSE ResolveRefs(table, Tail(refs), ref1,
                              [r EXCEPT !.result = Append(@, idx),
                                        !.num_unresolved_node_ids = @ + IsNone(idx)])

RECURSIVE ResolveWayLoop(_, _, _)
ResolveWayLoop(table, ways, r) ==
    IF ways = <<>> \/ r.panicked THEN r
    ELSE ResolveWayLoop(table, Tail(ways), ResolveRefs(table, Head(ways).refs, 0, r))

\* resolve_ways
ResolveWays(block, nodes_table) ==
    ResolveWayLoop(nodes_table, GroupWays(block.primitivegroup),
                   [result |-> <<>>, num_unresolved_node_ids |-> 0, panicked |-> FALSE])

\* for i in 0..keys.len() { tags.serialize(string_refs[keys[i]], string_refs[vals[i]]) }
RECURSIVE KeyValLoop(_, _, _, _, _)
KeyValLoop(c, keys, vals, refs, i) ==
    IF i > Len(keys) \/ c.panicked THEN c
    ELSE IF i > Len(vals) THEN RunPanic(c)
    ELSE KeyValLoop(SerializeTag(c, refs, keys[i], vals[i]), keys, vals, refs, i + 1)

\* the loop over the ways of serialize_ways; nodes_idx is what the iterator
\* over the resolved references still holds
RECURSIVE WayLoop(_, _, _, _)
WayLoop(c, ways, refs, nodes_idx) ==
    IF ways = <<>> \/ c.panicked THEN c
    ELSE LET pbf_way == Head(ways)
         IN  IF \/ ~InsertAsserts(c.ways_id_to_idx, pbf_way.id)
                \/ c.ways_id_to_idx.next_id # Len(c.ways)
             THEN RunPanic(c)
             ELSE LET c1 == [c EXCEPT
                                !.ways_id_to_idx = BuilderInsert(@, pbf_way.id),
                                !.ways = Append(@, [WayNew EXCEPT !.tag_first_idx =
                                                        NextIndex(c.tags)]),
                                !.way_ids = IF c.args_ids THEN Append(@, pbf_way.id)
                                            ELSE @,
                                !.debug_failed =
                                    @ \/ Len(pbf_way.keys) # Len(pbf_way.vals)]
                      c2 == KeyValLoop(c1, pbf_way.keys, pbf_way.vals, refs, 1)
                      n == Len(pbf_way.refs)
                  IN  IF c2.panicked THEN c2
                      ELSE IF n > Len(nodes_idx) THEN RunPanic(c2)
                      ELSE WayLoop(
                               [c2 EXCEPT
                                   !.ways[Len(c2.ways)].ref_first_idx = Len(c2.nodes_index),
                                   !.nodes_index = @ \o SubSeq(nodes_idx, 1, n)],
                               Tail(ways), refs,
                               SubSeq(nodes_idx, n + 1, Len(nodes_idx)))

\* serialize_ways: the Stats returned are c.block_stats
SerializeWays(c, block, nodes_idx) ==
    LET r == AddStringTable(c.stringtable, block.stringtable)
        ways == GroupWays(block.primitivegroup)
        c1 == WayLoop([c EXCEPT !.stringtable = r.st, !.block_stats = StatsDefault],
                      ways, r.refs, nodes_idx)
    IN  IF c1.panicked THEN c1
        ELSE [c1 EXCEPT !.block_stats.num_ways = @ + Len(ways)]

\* the loop over the relation ids of build_relations_index
RECURSIVE IndexRelations(_, _)
IndexRelations(b, rels) ==
    IF rels = <<>> \/ b.tag = "Panic" THEN b
    ELSE IF ~InsertAsserts(b.val, Head(rels).id) THEN Panic
    ELSE IndexRelations(Some(BuilderInsert(b.val, Head(rels).id)), Tail(rels))

\* the blocks of build_relations_index, consumed in order
RECURSIVE IndexRelationBlocks(_, _)
IndexRelationBlocks(b, blocks) ==
    IF blocks = <<>> \/ b.tag = "Panic" THEN b
    ELSE IndexRelationBlocks(
             IndexRelations(b, GroupRelations(Head(blocks).primitivegroup)),
             Tail(blocks))

\* (mutant) only the first relation block is indexed
BuildRelationsIndexFirstBlock(blocks) ==
    LET b == IndexRelationBlocks(Some(IdTableBuilderNew),
                                 IF blocks = <<>> THEN <<>> ELSE <<Head(blocks)>>)
    IN  IF b.tag = "Panic" THEN Panic ELSE Some(BuilderBuild(b.val))

\* build_relations_index: Some(the table), or Panic
BuildRelationsIndex(blocks) ==
    LET b == IndexRelationBlocks(Some(IdTableBuilderNew), blocks)
    IN  IF b.tag = "Panic" THEN Panic ELSE Some(BuilderBuild(b.val))

\* MemberType::from_i32
MemberTypeFromI32(t) ==
    IF t = 0 THEN Some("Node")
    ELSE IF t = 1 THEN Some("Way")
    ELSE IF t = 2 THEN Some("Relation")
    ELSE None

\* the three arms of the match in serialize_relations: the table asked and
\* the counter written
MemberTable(c, member_type) ==
    IF member_type = "Node" THEN c.nodes_table
    ELSE IF member_type = "Way" THEN c.ways_table
    ELSE c.relations_table

SetUnresolved(stats, member_type, idx) ==
    IF member_type = "Node"
    THEN [stats EXCEPT !.num_unresolved_node_ids = IsNone(idx)]
    ELSE IF member_type = "Way"
    THEN [stats EXCEPT !.num_unresolved_way_ids = IsNone(idx)]
    ELSE [stats EXCEPT !.num_unresolved_rel_ids = IsNone(idx)]

\* the loop over the members of one relation, from member i on; the members
\* go to the last item of relation_members
RECURSIVE MemberLoop(_, _, _, _, _)
MemberLoop(c, pbf_relation, refs, i, memid) ==
    IF i > Len(pbf_relation.roles_sid) \/ c.panicked THEN c
    ELSE IF i > Len(pbf_relation.memids) \/ i > Len(pbf_relation.types)
    THEN RunPanic(c)
    ELSE LET memid1 == memid + pbf_relation.memids[i]
             member_type == MemberTypeFromI32(pbf_relation.types[i])
         IN  IF member_type.tag = "None" THEN RunPanic(c)
             ELSE LET idx == IdTableGet(MemberTable(c, member_type.val), memid1)
                      role == pbf_relation.roles_sid[i]
                  IN  IF idx.tag = "Panic" \/ role >= Len(refs) THEN RunPanic(c)
                      ELSE MemberLoop(
                               [c EXCEPT
                                   !.block_stats = SetUnresolved(@, member_type.val, idx),
                                   !.relation_members[Len(c.relation_members)] =
                                       Append(@, [type |-> member_type.val, idx |-> idx,
                                                  role_idx |-> refs[role + 1]])],
                               pbf_relation, refs, i + 1, memid1)

\* the loop over the relations of serialize_relations
RECURSIVE RelationLoop(_, _, _)
RelationLoop(c, rels, refs) ==
    IF rels = <<>> \/ c.panicked THEN c
    ELSE LET pbf_relation == Head(rels)
             c1 == [c EXCEPT
                       !.relations = Append(@, [RelationNew EXCEPT !.tag_first_idx =
                                                    NextIndex(c.tags)]),
                       !.relation_ids = IF c.args_ids THEN Append(@, pbf_relation.id)
                                        ELSE @,
                       !.debug_failed =
                           @ \/ Len(pbf_relation.keys) # Len(pbf_relation.vals)
                             \/ Len(pbf_relation.roles_sid) # Len(pbf_relation.memids)
                             \/ Len(pbf_relation.memids) # Len(pbf_relation.types)]
             c2 == KeyValLoop(c1, pbf_relation.keys, pbf_relation.vals, refs, 1)
             c3 == MemberLoop([c2 EXCEPT !.relation_members = Append(@, <<>>)],
                              pbf_relation, refs, 1, 0)
         IN  IF c2.panicked THEN c2
             ELSE IF c3.panicked THEN c3
             ELSE RelationLoop([c3 EXCEPT !.block_stats.num_relations = @ + 1],
                               Tail(rels), refs)

\* serialize_relations: the Stats returned are c.block_stats
SerializeRelations(c, block) ==
    LET r == AddStringTable(c.stringtable, block.stringtable)
    IN  RelationLoop([c EXCEPT !.stringtable = r.st, !.block_stats = StatsDefault],
                     GroupRelations(block.primitivegroup), r.refs)

\* ---- inputs of the compile
\* the string tables of the blocks: the same strings at different places
PbfStringsA == << <<>>, <<1>>, <<2>> >>
PbfStringsB == << <<>>, <<2>>, <<1>> >>

DenseBlock(strs, groups) ==
    [stringtable |-> strs,
     primitivegroup |-> [g \in 1..Len(groups) |-> [dense |-> groups[g]]]]

\* dense-nodes blocks; the first id of a group is counted from the last id
\* read before it. keys_vals holds for each node its (key, value) string
\* ids and a 0, and is empty where no node of the group has a tag
DenseTemplates ==
    {DenseBlock(PbfStringsA, <<[id |-> <<1, 1>>, keys_vals |-> <<1, 2, 0, 0>>]>>),
     DenseBlock(PbfStringsA, <<[id |-> <<1, 1>>, keys_vals |-> <<>>]>>),
     DenseBlock(PbfStringsB, <<[id |-> <<1>>, keys_vals |-> <<2, 1, 1, 2, 0>>]>>),
     DenseBlock(PbfStringsA, <<[id |-> <<2>>, keys_vals |-> <<0>>]>>),
     DenseBlock(PbfStringsA, <<[id |-> <<1>>, keys_vals |-> <<2, 2, 0>>],
                               [id |-> <<1>>, keys_vals |-> <<>>]>>)}

WayBlock(strs, ways) ==
    [stringtable |-> strs, primitivegroup |-> <<[ways |-> ways]>>]

\* way blocks; the id of a way is counted from the last way id read before
\* the block, refs are deltas
WayTemplates ==
    {WayBlock(PbfStringsA,
              <<[id |-> 1, keys |-> <<1>>, vals |-> <<2>>, refs |-> <<1, 1>>]>>),
     WayBlock(PbfStringsB,
              <<[id |-> 1, keys |-> <<>>, vals |-> <<>>, refs |-> <<2, 5>>],
                [id |-> 2, keys |-> <<2, 1>>, vals |-> <<1, 2>>, refs |-> <<3>>]>>),
     WayBlock(PbfStringsA,
              <<[id |-> 2, keys |-> <<1>>, vals |-> <<1>>, refs |-> <<>>]>>)}

RelationBlock(strs, relations) ==
    [stringtable |-> strs, primitivegroup |-> <<[relations |-> relations]>>]

\* relation blocks; the id of a relation is counted from the last relation
\* id of the block before, memids are deltas, types are 0 (node), 1 (way)
\* and 2 (relation)
RelationTemplates ==
    {RelationBlock(PbfStringsA,
                   <<[id |-> 1, keys |-> <<1>>, vals |-> <<2>>,
                      roles_sid |-> <<0, 1, 2>>, memids |-> <<1, 0, 1>>,
                      types |-> <<0, 1, 2>>]>>),
     RelationBlock(PbfStringsA,
                   <<[id |-> 1, keys |-> <<>>, vals |-> <<>>,
                      roles_sid |-> <<0, 0, 0, 0>>, memids |-> <<9, -8, 8, 1>>,
                      types |-> <<0, 0, 1, 1>>]>>),
     RelationBlock(PbfStringsB,
                   <<[id |-> 1, keys |-> <<>>, vals |-> <<>>,
                      roles_sid |-> <<1>>, memids |-> <<9>>, types |-> <<2>>],
                     [id |-> 3, keys |-> <<2>>, vals |-> <<1>>,
                      roles_sid |-> <<1, 2>>, memids |-> <<1, 1>>,
                      types |-> <<2, 0>>]>>),
     RelationBlock(PbfStringsA,
                   <<[id |-> 1, keys |-> <<>>, vals |-> <<>>,
                      roles_sid |-> <<1>>, memids |-> <<2>>, types |-> <<2>>]>>)}

RECURSIVE SumSeq(_)
SumSeq(q) == IF q = <<>> THEN 0 ELSE Head(q) + SumSeq(Tail(q))

\* the last id a builder took, 0 before the first
LastId(b) == IF b.last_id.tag = "Some" THEN b.last_id.val ELSE 0

\* the groups of a dense template placed after id base
RECURSIVE RebaseDense(_, _)
RebaseDense(groups, base) ==
    IF groups = <<>> THEN <<>>
    ELSE LET g == Head(groups)
         IN  <<[g EXCEPT !.dense.id[1] = @ + base]>>
             \o RebaseDense(Tail(groups), base + SumSeq(g.dense.id))

\* the ways, or relations, of a template placed after id base
RebaseIds(entities, base) ==
    [i \in 1..Len(entities) |-> [entities[i] EXCEPT !.id = @ + base]]

DenseInput(t, base) == [t EXCEPT !.primitivegroup = RebaseDense(@, base)]
WayInput(t, base) == [t EXCEPT !.primitivegroup[1].ways = RebaseIds(@, base)]
RelationInput(t, base) ==
    [t EXCEPT !.primitivegroup[1].relations = RebaseIds(@, base)]

\* the relation blocks of a file: templates one after the other
RECURSIVE RelationInputs(_, _)
RelationInputs(ts, base) ==
    IF ts = <<>> THEN <<>>
    ELSE LET b == RelationInput(Head(ts), base)
             rels == b.primitivegroup[1].relations
         IN  <<b>> \o RelationInputs(Tail(ts), rels[Len(rels)].id)

RelationTemplateSeqs(n) == UNION {[1..k -> RelationTemplates] : k \in 0..n}

\* ---- what the blocks hold
\* the tags of an entity given as parallel keys and vals
KeysValsTags(strs, keys, vals) ==
    [i \in 1..Len(keys) |-> <<strs[keys[i] + 1], strs[vals[i] + 1]>>]

\* the tags of the nodes of a dense group, from its keys_vals
RECURSIVE KeysValsRuns(_, _, _)
KeysValsRuns(strs, keys_vals, acc) ==
    IF keys_vals = <<>> THEN <<>>
    ELSE IF Head(keys_vals) = 0
    THEN <<acc>> \o KeysValsRuns(strs, Tail(keys_vals), <<>>)
    ELSE KeysValsRuns(strs, SubSeq(keys_vals, 3, Len(keys_vals)),
                      Append(acc, <<strs[keys_vals[1] + 1], strs[keys_vals[2] + 1]>>))

DenseTags(strs, dense) ==
    IF dense.keys_vals = <<>> THEN [i \in 1..Len(dense.id) |-> <<>>]
    ELSE KeysValsRuns(strs, dense.keys_vals, <<>>)

RECURSIVE DenseBlockTags(_, _)
DenseBlockTags(strs, groups) ==
    IF groups = <<>> THEN <<>>
    ELSE DenseTags(strs, Head(groups).dense) \o DenseBlockTags(strs, Tail(groups))

\* the ids that a sequence of deltas denotes
RECURSIVE Undelta(_, _)
Undelta(deltas, base) ==
    IF deltas = <<>> THEN <<>>
    ELSE <<base + Head(deltas)>> \o Undelta(Tail(deltas), base + Head(deltas))

RECURSIVE DenseBlockIds(_)
DenseBlockIds(groups) ==
    IF groups = <<>> THEN <<>>
    ELSE Undelta(Head(groups).dense.id, 0) \o DenseBlockIds(Tail(groups))

Range(q) == {q[i] : i \in 1..Len(q)}

RECURSIVE WayRefs(_)
WayRefs(ways) ==
    IF ways = <<>> THEN <<>> ELSE Undelta(Head(ways).refs, 0) \o WayRefs(Tail(ways))

\* the members of the relations: type, id and role
RelationMembers(strs, rel) ==
    LET ids == Undelta(rel.memids, 0)
    IN  [i \in 1..Len(ids) |-> [type |-> MemberTypeFromI32(rel.types[i]).val,
                               id |-> ids[i],
                               role |-> strs[rel.roles_sid[i] + 1]]]

RECURSIVE AllMembers(_, _)
AllMembers(strs, rels) ==
    IF rels = <<>> THEN <<>>
    ELSE RelationMembers(strs, Head(rels)) \o AllMembers(strs, Tail(rels))

SourceNew ==
    [nodes |-> <<>>, ways |-> <<>>, relations |-> <<>>,
     node_ids |-> {}, way_ids |-> {}, relation_ids |-> {},
     way_refs |-> <<>>, members |-> <<>>,
     node_seq |-> <<>>, way_seq |-> <<>>, relation_seq |-> <<>>,
     way_nodes |-> <<>>,
     headers |-> 0, plain |-> FALSE]

\* ---- the steps of run
CInit ==
    /\ c_phase = "index"
    /\ c_blocks = 0
    /\ run \in {[RunNew EXCEPT !.args_ids = ids] : ids \in BOOLEAN}
    /\ rel_blocks = <<>>
    /\ source = SourceNew

\* what follows a serialize_* call that left c: a panic ends the compile; a
\* failed debug assertion ends it in a build that has them
Outcomes(c, phase) ==
    IF c.panicked THEN {"panicked"}
    ELSE IF c.debug_failed THEN {"panicked", phase}
    ELSE {phase}

\* *stats += the Stats of the call
AddBlockStats(c) == [c EXCEPT !.stats = StatsAdd(@, c.block_stats)]

\* (mutant) any number of header blocks but zero is taken
RequireSomeHeader(len) == len = 0

\* if pbf_header.len() != 1 { return Err(..) }
RequireOneHeader(len) == len # 1

\* run from the block index to the header: the blocks are grouped by their
\* type, a group of plain nodes panics, and the header blocks are counted;
\* headers is the number of header blocks of the index and plain tells
\* whether it holds blocks of plain nodes
GroupBlocks(headers, plain) ==
    /\ c_phase = "index"
    /\ source' = [source EXCEPT !.headers = headers, !.plain = plain]
    /\ IF plain
       THEN /\ run' = RunPanic(run)
            /\ c_phase' = "panicked"
       ELSE /\ run' = run
            /\ c_phase' = IF RequireOneHeader(headers) THEN "error" ELSE "header"
    /\ UNCHANGED <<c_blocks, rel_blocks>>
    /\ UNCHANGED cOthers

\* serialize_header: the writing program goes to the string table
SerializeHeader ==
    /\ c_phase = "header"
    /\ run' = [Logged(run, <<"header">>) EXCEPT
                  !.stringtable = StringTableInsert(@, OSMFLATC).st]
    /\ c_phase' = "nodes"
    /\ UNCHANGED <<c_blocks, rel_blocks, source>>
    /\ UNCHANGED cOthers

\* the consume closure of serialize_dense_node_blocks on the next block
ConsumeDenseBlock(t) ==
    /\ c_phase = "nodes"
    /\ c_blocks < MaxBlocks
    /\ LET block == DenseInput(t, LastId(run.nodes_id_to_idx))
           c == SerializeDenseNodes(Logged(run, <<"nodes">>), block)
       IN  /\ run' = IF c.panicked THEN c ELSE AddBlockStats(c)
           /\ c_phase' \in Outcomes(c, "nodes")
           /\ source' = [source EXCEPT
                  !.nodes = @ \o DenseBlockTags(block.stringtable, block.primitivegroup),
                  !.node_ids = @ \cup Range(DenseBlockIds(block.primitivegroup)),
                  !.node_seq = @ \o DenseBlockIds(block.primitivegroup)]
    /\ c_blocks' = c_blocks + 1
    /\ UNCHANGED rel_blocks
    /\ UNCHANGED cOthers

\* serialize_dense_node_blocks after its blocks: the sentinel, and the table
DenseNodesEnd ==
    /\ c_phase = "nodes"
    /\ run' = [Logged(run, <<"nodes.close">> \o CloseIds(run, "node_ids.close")
                                \o <<"nodes_id_to_idx.build">>) EXCEPT
                  !.nodes = Append(@, [NodeNew EXCEPT !.tag_first_idx =
                                          NextIndex(run.tags)]),
                  !.nodes_table = BuilderBuild(run.nodes_id_to_idx)]
    /\ c_phase' = "ways"
    /\ UNCHANGED <<c_blocks, rel_blocks, source>>
    /\ UNCHANGED cOthers

\* the produce and consume closures of serialize_way_blocks on the next
\* block; a panic of the producing thread ends the compile
ConsumeWayBlock(t) ==
    /\ c_phase = "ways"
    /\ c_blocks < MaxBlocks
    /\ LET block == WayInput(t, LastId(run.ways_id_to_idx))
           ids == ResolveWays(block, run.nodes_table)
           c0 == [Logged(run, <<"ways">>) EXCEPT !.stats.num_unresolved_node_ids =
                                 @ + ids.num_unresolved_node_ids]
           c == IF ids.panicked THEN RunPanic(Logged(run, <<"ways">>))
                ELSE SerializeWays(c0, block, ids.result)
           ways == GroupWays(block.primitivegroup)
       IN  /\ run' = IF c.panicked THEN c ELSE AddBlockStats(c)
           /\ c_phase' \in Outcomes(c, "ways")
           /\ source' = [source EXCEPT
                  !.ways = @ \o [i \in 1..Len(ways) |->
                                    KeysValsTags(block.stringtable, ways[i].keys,
                                                 ways[i].vals)],
                  !.way_ids = @ \cup {ways[i].id : i \in 1..Len(ways)},
                  !.way_refs = @ \o WayRefs(ways),
                  !.way_seq = @ \o [i \in 1..Len(ways) |-> ways[i].id],
                  !.way_nodes = @ \o [i \in 1..Len(ways) |-> Undelta(ways[i].refs, 0)]]
    /\ c_blocks' = c_blocks + 1
    /\ UNCHANGED rel_blocks
    /\ UNCHANGED cOthers

\* serialize_way_blocks after its blocks: the sentinel, and the table
WaysEnd ==
    /\ c_phase = "ways"
    /\ run' = [Logged(run, <<"ways.close">> \o CloseIds(run, "way_ids.close")
                                \o <<"nodes_index.close", "ways_id_to_idx.build">>) EXCEPT
                  !.ways = Append(@, [tag_first_idx |-> NextIndex(run.tags),
                                      ref_first_idx |-> Len(run.nodes_index)]),
                  !.ways_table = BuilderBuild(run.ways_id_to_idx)]
    /\ c_phase' = "relations_index"
    /\ UNCHANGED <<c_blocks, rel_blocks, source>>
    /\ UNCHANGED cOthers

\* serialize_relation_blocks up to its second parallel_process: the ids of
\* all relation blocks are indexed
RelationsIndex(ts) ==
    /\ c_phase = "relations_index"
    /\ c_blocks + Len(ts) <= MaxBlocks
    /\ LET blocks == RelationInputs(ts, 0)
           table == BuildRelationsIndex(blocks)
       IN  /\ rel_blocks' = blocks
           /\ IF table.tag = "Panic"
              THEN /\ run' = RunPanic(Logged(run, <<"relations_index">>))
                   /\ c_phase' = "panicked"
              ELSE /\ run' = [Logged(run, <<"relations_index">>) EXCEPT
                                 !.relations_table = table.val]
                   /\ c_phase' = "relations"
           /\ source' = [source EXCEPT !.relation_ids =
                  UNION {{r.id : r \in Range(GroupRelations(blocks[k].primitivegroup))} :
                         k \in 1..Len(blocks)}]
    /\ c_blocks' = c_blocks + Len(ts)
    /\ UNCHANGED cOthers

\* the consume closure of serialize_relation_blocks on the next block
ConsumeRelationBlock ==
    /\ c_phase = "relations"
    /\ rel_blocks # <<>>
    /\ LET block == Head(rel_blocks)
           c == SerializeRelations(Logged(run, <<"relations">>), block)
           rels == GroupRelations(block.primitivegroup)
       IN  /\ run' = IF c.panicked THEN c ELSE AddBlockStats(c)
           /\ c_phase' \in Outcomes(c, "relations")
           /\ source' = [source EXCEPT
                  !.relations = @ \o [i \in 1..Len(rels) |->
                                         KeysValsTags(block.stringtable, rels[i].keys,
                                                      rels[i].vals)],
                  !.members = @ \o AllMembers(block.stringtable, rels),
                  !.relation_seq = @ \o [i \in 1..Len(rels) |-> rels[i].id]]
    /\ rel_blocks' = Tail(rel_blocks)
    /\ UNCHANGED c_blocks
    /\ UNCHANGED cOthers

\* serialize_relation_blocks after its blocks, and the end of run: the
\* sentinel, and the string table written out
RelationsEnd ==
    /\ c_phase = "relations"
    /\ rel_blocks = <<>>
    /\ run' = Finalize(
                  [Logged(run, <<"relations.close">>
                                   \o CloseIds(run, "relation_ids.close")
                                   \o <<"relation_members.close">>) EXCEPT
                      !.relations = Append(@, [RelationNew EXCEPT !.tag_first_idx =
                                                  NextIndex(run.tags)])])
    /\ c_phase' = "done"
    /\ UNCHANGED <<c_blocks, rel_blocks, source>>
    /\ UNCHANGED cOthers

CNext ==
    \/ \E headers \in 0..MaxHeaders, plain \in BOOLEAN : GroupBlocks(headers, plain)
    \/ SerializeHeader
    \/ \E t \in DenseTemplates : ConsumeDenseBlock(t)
    \/ DenseNodesEnd
    \/ \E t \in WayTemplates : ConsumeWayBlock(t)
    \/ WaysEnd
    \/ \E ts \in RelationTemplateSeqs(MaxBlocks) : RelationsIndex(ts)
    \/ ConsumeRelationBlock
    \/ RelationsEnd

\* ---- reading the archive (osmflat/src/tags.rs)
\* RawData::substring_raw: the bytes from offset start to the next NUL
SubstringRaw(blob, start) == CStr(blob, start + 1)

\* iter_tags over the range first..last of TagIndex rows of the archive
\* that c holds
IterTags(c, first, last) ==
    [j \in 1..(last - first) |->
        LET tag == c.tags.tags[c.tags.tags_index[first + j] + 1]
        IN  <<SubstringRaw(c.blob, tag.key_idx), SubstringRaw(c.blob, tag.value_idx)>>]

\* ---- the coordinate scale (osmflatc/src/main.rs: gcd, run,
\* serialize_header, serialize_dense_nodes)

\* the loop of gcd: while x > 1 { y %= x; swap(x, y) }; y
RECURSIVE GcdLoop(_, _)
GcdLoop(x, y) == IF x > 1 THEN GcdLoop(y % x, x) ELSE y

\* fn gcd(a, b)
gcd(a, b) ==
    LET x == IF a < b THEN a ELSE b
        y == IF a < b THEN b ELSE a
    IN  GcdLoop(x, y)

\* the granularity of an entry of the block index: the optional
\* granularity field of the block it stands for
IndexGranularity(block) == block.granularity

\* the fold over the dense-node blocks of the block index: a block without
\* a granularity is passed over
RECURSIVE GreatestCommonGranularity(_, _)
GreatestCommonGranularity(blocks, acc) ==
    IF blocks = <<>> THEN acc
    ELSE GreatestCommonGranularity(Tail(blocks),
            IF IndexGranularity(Head(blocks)).tag = "Some"
            THEN gcd(acc, IndexGranularity(Head(blocks)).val)
            ELSE acc)

\* a / b of Rust on signed integers, b > 0: the quotient is cut toward zero
TruncDiv(a, b) == IF a >= 0 THEN a \div b ELSE -((-a) \div b)

\* Option::unwrap_or
UnwrapOr(o, d) == IF o.tag = "Some" THEN o.val ELSE d

\* the coordinates of a block in the units of the input: offset +
\* granularity * running sum of the deltas
SourceCoords(block) ==
    LET lats == Undelta(block.lat, 0)
        lons == Undelta(block.lon, 0)
        g == UnwrapOr(block.granularity, 100)
    IN  [i \in 1..Len(lats) |->
            [lat |-> UnwrapOr(block.lat_offset, 0) + g * lats[i],
             lon |-> UnwrapOr(block.lon_offset, 0) + g * lons[i]]]

\* `v as i32` on an i64: the low bits of v, read as a signed number
AsI32(v) ==
    ((v + 2^(LatLonBits - 1)) % 2^LatLonBits) - 2^(LatLonBits - 1)

\* the node rows of one block: lat and lon divided by granularity in i64
\* and cast to the width of the field
ScaleRows(block, granularity) ==
    LET q == SourceCoords(block)
    IN  [i \in 1..Len(q) |-> [lat |-> AsI32(TruncDiv(q[i].lat, granularity)),
                              lon |-> AsI32(TruncDiv(q[i].lon, granularity))]]

\* dense-node blocks of an input: the granularities divide 1000000000
CoordTemplates ==
    {[granularity |-> None, lat_offset |-> None, lon_offset |-> None,
      lat |-> <<12, -5>>, lon |-> <<-7, 3>>],
     [granularity |-> Some(100), lat_offset |-> Some(250), lon_offset |-> None,
      lat |-> <<12, -5>>, lon |-> <<-7, 3>>],
     [granularity |-> Some(1000), lat_offset |-> None, lon_offset |-> Some(-999),
      lat |-> <<3>>, lon |-> <<-3>>],
     [granularity |-> Some(1), lat_offset |-> None, lon_offset |-> None,
      lat |-> <<1500, 1>>, lon |-> <<-2501, 2>>],
     [granularity |-> Some(8), lat_offset |-> None, lon_offset |-> None,
      lat |-> <<40>>, lon |-> <<-41>>],
     [granularity |-> Some(125), lat_offset |-> None, lon_offset |-> None,
      lat |-> <<9>>, lon |-> <<-9>>],
     \* a node near the north pole and the antimeridian, and one near the
     \* south pole and the antimeridian on the other side
     [granularity |-> Some(8), lat_offset |-> None, lon_offset |-> None,
      lat |-> <<10728, -21456>>, lon |-> <<21457, -42914>>]}

\* HeaderBlock.bbox of the input, in units of 1e-9 degree
BBoxChoices ==
    {None, Some([left |-> -2500, right |-> 3999, top |-> 1500, bottom |-> -1])}

BlockSeqs(n) == UNION {[1..k -> CoordTemplates] : k \in 0..n}

CoordInit ==
    \E blocks \in BlockSeqs(MaxCoordBlocks), bbox \in BBoxChoices :
        coords = [phase |-> "index", blocks |-> blocks, bbox |-> bbox,
                  k |-> 0, granularity |-> 0, coord_scale |-> 0,
                  header |-> None, nodes |-> <<>>, fixed |-> <<>>]

\* run: the fold over the block index and the scale
CoordScale ==
    /\ coords.phase = "index"
    /\ LET g == GreatestCommonGranularity(coords.blocks, 1000000000)
       IN  coords' = [coords EXCEPT !.phase = "header",
                                    !.granularity = g,
                                    !.coord_scale = 1000000000 \div g]
    /\ UNCHANGED coOthers

\* serialize_header: coord_scale and the bounding box
CoordHeader ==
    /\ coords.phase = "header"
    /\ LET d == 1000000000 \div coords.coord_scale
           b == coords.bbox
       IN  coords' = [coords EXCEPT
               !.phase = "nodes",
               !.header = Some([coord_scale |-> coords.coord_scale,
                                bbox |-> IF b.tag = "Some"
                                         THEN Some([left |-> TruncDiv(b.val.left, d),
                                                    right |-> TruncDiv(b.val.right, d),
                                                    top |-> TruncDiv(b.val.top, d),
                                                    bottom |-> TruncDiv(b.val.bottom, d)])
                                         ELSE None])]
    /\ UNCHANGED coOthers

\* serialize_dense_nodes on the next block: lat and lon of its rows
CoordDenseBlock ==
    /\ coords.phase = "nodes"
    /\ coords.k < Len(coords.blocks)
    /\ LET block == coords.blocks[coords.k + 1]
       IN  coords' = [coords EXCEPT
               !.k = @ + 1,
               !.nodes = @ \o ScaleRows(block, coords.granularity),
               !.fixed = @ \o SourceCoords(block)]
    /\ UNCHANGED coOthers

CoordNext ==
    \/ CoordScale
    \/ CoordHeader
    \/ CoordDenseBlock

\* =================================================================== osmpbf.rs

\* enum BlockType with its derived order: the order of the variants
BlockTypeOrd(t) ==
    CASE t = "Header" -> 0
      [] t = "Nodes" -> 1
      [] t = "DenseNodes" -> 2
      [] t = "Ways" -> 3
      [] t = "Relations" -> 4

\* blocks of a file: the length of the blob header, the datasize it names,
\* the type of the block, and whether the blob decodes
FileBlocks ==
    {[header_len |-> 1, datasize |-> 2, block_type |-> "Header", decodes |-> TRUE],
     [header_len |-> 2, datasize |-> 1, block_type |-> "Nodes", decodes |-> TRUE],
     [header_len |-> 1, datasize |-> 3, block_type |-> "DenseNodes", decodes |-> TRUE],
     [header_len |-> 1, datasize |-> 1, block_type |-> "Ways", decodes |-> TRUE],
     [header_len |-> 2, datasize |-> 2, block_type |-> "Relations", decodes |-> TRUE],
     [header_len |-> 1, datasize |-> 1, block_type |-> "Ways", decodes |-> FALSE]}

\* BlockIndexIterator::next_blob on the k-th block: the cursor before it,
\* then 4 bytes of length and the blob header; blob_start is the cursor there
RECURSIVE BlobStart(_, _)
BlobStart(file, k) ==
    (IF k = 1 THEN 0
     ELSE BlobStart(file, k - 1) + file[k - 1].datasize)
    + 4 + file[k].header_len

\* the BlockIndex of the k-th block
Descriptor(file, k) ==
    [block_type |-> file[k].block_type,
     blob_start |-> BlobStart(file, k),
     blob_len |-> file[k].datasize]

\* (mutant) the descriptors compared by blob_start alone
BlockIndexLessByStart(a, b) == a.blob_start < b.blob_start

\* derive(PartialOrd, Ord) on BlockIndex: block_type, then blob_start, then
\* blob_len
BlockIndexLess(a, b) ==
    \/ BlockTypeOrd(a.block_type) < BlockTypeOrd(b.block_type)
    \/ /\ a.block_type = b.block_type
       /\ \/ a.blob_start < b.blob_start
          \/ a.blob_start = b.blob_start /\ a.blob_len < b.blob_len

\* result.par_sort_unstable(): an arrangement of the same elements in which
\* none stands before a smaller one
ParSortUnstable(q) ==
    {p \in [1..Len(q) -> Range(q)] :
        /\ \A e \in Range(q) :
               Cardinality({i \in 1..Len(q) : p[i] = e})
                   = Cardinality({i \in 1..Len(q) : q[i] = e})
        /\ \A i, j \in 1..Len(q) : i < j => ~BlockIndexLess(p[j], p[i])}

FileSeqs(n) == UNION {[1..k -> FileBlocks] : k \in 0..n}

IdxInit ==
    \E file \in FileSeqs(MaxIndexBlocks) :
        bidx = [file |-> file, cursor |-> 0, tasks |-> {}, result |-> <<>>,
                collected |-> <<>>, phase |-> "collect"]

\* BlockIndexIterator::next under par_bridge: the next blob is read, in the
\* order of the file, and handed to a task of the pool
IndexRead ==
    /\ bidx.phase = "collect"
    /\ bidx.cursor < Len(bidx.file)
    /\ bidx' = [bidx EXCEPT !.cursor = @ + 1, !.tasks = @ \cup {bidx.cursor + 1}]
    /\ UNCHANGED idxOthers

\* the closure of filter_map on the k-th blob, in a task of the pool: the
\* descriptor is collected, or the block is skipped when it does not decode
IndexClassify(k) ==
    /\ bidx.phase = "collect"
    /\ k \in bidx.tasks
    /\ bidx' = [bidx EXCEPT
                   !.tasks = @ \ {k},
                   !.result = IF bidx.file[k].decodes
                              THEN Append(@, Descriptor(bidx.file, k)) ELSE @]
    /\ UNCHANGED idxOthers

\* collect has every result: par_sort_unstable and return
IndexSort ==
    /\ bidx.phase = "collect"
    /\ bidx.cursor = Len(bidx.file)
    /\ bidx.tasks = {}
    /\ \E p \in ParSortUnstable(bidx.result) :
           bidx' = [bidx EXCEPT !.result = p, !.collected = bidx.result,
                                !.phase = "returned"]
    /\ UNCHANGED idxOthers

IdxNext ==
    \/ IndexRead
    \/ \E k \in 1..MaxIndexBlocks : IndexClassify(k)
    \/ IndexSort

\* no file: build_block_index is not running
IdxIdle == IdxInit /\ bidx.file = <<>>

\* ---- build_block_index over an iterator shared under a mutex
\* (src/osmpbf.rs)

\* the tasks spawned in the scope: for _ in 1..num_tasks
Tasks(num_tasks) == 1..(num_tasks - 1)

MxInit ==
    \E file \in FileSeqs(MaxIndexBlocks), num_tasks \in 1..MaxPoolThreads :
        midx = [file |-> file, num_tasks |-> num_tasks, cursor |-> 0,
                tpc |-> [t \in Tasks(num_tasks) |-> "next"],
                blob |-> [t \in Tasks(num_tasks) |-> 0],
                local_result |-> [t \in Tasks(num_tasks) |-> <<>>],
                by |-> [k \in 1..Len(file) |-> {}],
                result |-> <<>>, phase |-> "scope"]

\* let blob = iter.lock().unwrap().next(): the next blob of the file, or
\* None at its end, which breaks the loop
TaskNext(t) ==
    /\ midx.phase = "scope"
    /\ t \in Tasks(midx.num_tasks)
    /\ midx.tpc[t] = "next"
    /\ midx' = IF midx.cursor < Len(midx.file)
               THEN [midx EXCEPT !.cursor = @ + 1,
                                 !.blob[t] = midx.cursor + 1,
                                 !.tpc[t] = "classify"]
               ELSE [midx EXCEPT !.tpc[t] = "extend"]
    /\ UNCHANGED mxOthers

\* match blob and match block: the descriptor of the blob is pushed to
\* local_result, or the block is skipped when it does not decode
TaskClassify(t) ==
    /\ midx.phase = "scope"
    /\ t \in Tasks(midx.num_tasks)
    /\ midx.tpc[t] = "classify"
    /\ LET k == midx.blob[t]
       IN  midx' = [midx EXCEPT
               !.by[k] = @ \cup {t},
               !.local_result[t] =
                   IF midx.file[k].decodes
                   THEN Append(@, Descriptor(midx.file, k)) ELSE @,
               !.blob[t] = 0,
               !.tpc[t] = "next"]
    /\ UNCHANGED mxOthers

\* result.lock().unwrap().extend(local_result), the end of the task
TaskExtend(t) ==
    /\ midx.phase = "scope"
    /\ t \in Tasks(midx.num_tasks)
    /\ midx.tpc[t] = "extend"
    /\ midx' = [midx EXCEPT !.result = @ \o midx.local_result[t],
                            !.tpc[t] = "done"]
    /\ UNCHANGED mxOthers

\* the scope ends when every task it spawned has ended:
\* result.par_sort_unstable() and return
ScopeSort ==
    /\ midx.phase = "scope"
    /\ \A t \in Tasks(midx.num_tasks) : midx.tpc[t] = "done"
    /\ \E p \in ParSortUnstable(midx.result) :
           midx' = [midx EXCEPT !.result = p, !.phase = "returned"]
    /\ UNCHANGED mxOthers

MxNext ==
    \/ \E t \in 1..MaxPoolThreads : TaskNext(t)
    \/ \E t \in 1..MaxPoolThreads : TaskClassify(t)
    \/ \E t \in 1..MaxPoolThreads : TaskExtend(t)
    \/ ScopeSort

\* no file: build_block_index is not running
MxIdle ==
    midx = [file |-> <<>>, num_tasks |-> 1, cursor |-> 0, tpc |-> <<>>,
            blob |-> <<>>, local_result |-> <<>>, by |-> <<>>,
            result |-> <<>>, phase |-> "scope"]

\* ===================================================================== tags.rs

\* slice.starts_with(needle)
StartsWith(block, needle) ==
    Len(block) >= Len(needle) /\ SubSeq(block, 1, Len(needle)) = needle

\* &strings.as_bytes()[idx..]: the string table from offset idx to its end
BlockAt(blob, idx) == SubSeq(blob, idx + 1, Len(blob))

\* block.starts_with(value) && *block.get(value.len()).unwrap_or(&0) == 0
Matches(blob, idx, value) ==
    LET block == BlockAt(blob, idx)
    IN  /\ StartsWith(block, value)
        /\ (IF Len(value) < Len(block) THEN block[Len(value) + 1] ELSE 0) = 0

\* &tags[tags_index[idx].value()] of the archive a
TagAt(a, idx) == a.tags.tags[a.tags.tags_index[idx + 1] + 1]

\* (mutant) a tag whose key matches and whose value differs is passed over
RECURSIVE HasTagAnywhere(_, _, _, _, _)
HasTagAnywhere(a, first, last, key, value) ==
    IF first >= last THEN FALSE
    ELSE IF /\ Matches(a.blob, TagAt(a, first).key_idx, key)
            /\ Matches(a.blob, TagAt(a, first).value_idx, value)
         THEN TRUE
         ELSE HasTagAnywhere(a, first + 1, last, key, value)

\* has_tag on the range first..last
RECURSIVE HasTag(_, _, _, _, _)
HasTag(a, first, last, key, value) ==
    IF first >= last THEN FALSE
    ELSE IF Matches(a.blob, TagAt(a, first).key_idx, key)
         THEN Matches(a.blob, TagAt(a, first).value_idx, value)
         ELSE HasTag(a, first + 1, last, key, value)

\* (mutant) the closure of find_tag without the look at the byte after the key
FindTagPredicatePrefix(key, key_block) == StartsWith(key_block, key)

\* the closure of find_tag: key_block.starts_with(key) &&
\* *key_block.get(key.len()).unwrap_or(&0) == 0
FindTagPredicate(key, key_block) ==
    /\ StartsWith(key_block, key)
    /\ (IF Len(key) < Len(key_block) THEN key_block[Len(key) + 1] ELSE 0) = 0

\* the predicates given to find_tag_by: the closure of find_tag for a key,
\* and closures that look at the length of the blocks they are given
ApplyPredicate(p, key_block, value_block) ==
    CASE p.kind = "find_tag" -> FindTagPredicate(p.key, key_block)
      [] p.kind = "never" -> FALSE
      [] p.kind = "value_block_longer" -> Len(value_block) > Len(key_block)
      [] p.kind = "key_block_from" -> Len(key_block) <= p.len

\* (mutant) the predicate is given the key and the value cut at their NUL
RECURSIVE FindTagByTrimmed(_, _, _, _)
FindTagByTrimmed(a, first, last, p) ==
    IF first >= last THEN [result |-> None, calls |-> <<>>]
    ELSE LET tag == TagAt(a, first)
             key_block == SubstringRaw(a.blob, tag.key_idx)
             value_block == SubstringRaw(a.blob, tag.value_idx)
         IN  IF ApplyPredicate(p, key_block, value_block)
             THEN [result |-> Some(SubstringRaw(a.blob, tag.value_idx)),
                   calls |-> <<<<key_block, value_block>>>>]
             ELSE LET rest == FindTagByTrimmed(a, first + 1, last, p)
                  IN  [result |-> rest.result,
                       calls |-> <<<<key_block, value_block>>>> \o rest.calls]

\* find_tag_by on the range first..last: the value found and the blocks the
\* predicate was called on
RECURSIVE FindTagBy(_, _, _, _)
FindTagBy(a, first, last, p) ==
    IF first >= last THEN [result |-> None, calls |-> <<>>]
    ELSE LET tag == TagAt(a, first)
             key_block == BlockAt(a.blob, tag.key_idx)
             value_block == BlockAt(a.blob, tag.value_idx)
         IN  IF ApplyPredicate(p, key_block, value_block)
             THEN [result |-> Some(SubstringRaw(a.blob, tag.value_idx)),
                   calls |-> <<<<key_block, value_block>>>>]
             ELSE LET rest == FindTagBy(a, first + 1, last, p)
                  IN  [result |-> rest.result,
                       calls |-> <<<<key_block, value_block>>>> \o rest.calls]

\* find_tag
FindTag(a, first, last, key) ==
    FindTagBy(a, first, last, [kind |-> "find_tag", key |-> key])

\* ---- archives to read
\* tags of an entity: keys of which one is a prefix of another, values that
\* repeat, an empty value
ReadTagChoices ==
    {<<<<1>>, <<2>>>>, <<<<1, 2>>, <<1>>>>, <<<<1>>, <<1>>>>, <<<<2>>, <<>>>>}

\* the archive a compile leaves for one entity with the tags given: the
\* strings inserted and the tags serialized as serialize_ways does
RECURSIVE BuildArchive(_, _, _)
BuildArchive(st, ts, tags) ==
    IF tags = <<>> THEN [tags |-> ts, blob |-> StringTableIntoBytes(st)]
    ELSE LET k == StringTableInsert(st, Head(tags)[1])
             v == StringTableInsert(k.st, Head(tags)[2])
         IN  BuildArchive(v.st, TagSerialize(ts, k.idx, v.idx), Tail(tags))

ReadTagSeqs(n) == UNION {[1..k -> ReadTagChoices] : k \in 0..n}

\* keys and values asked for: stored ones, one that is stored nowhere, and
\* one with a NUL byte inside
QueryChoices == {<<>>, <<1>>, <<2>>, <<1, 2>>, <<3>>, <<1, 0, 2>>}

PredicateChoices ==
    {[kind |-> "never"], [kind |-> "value_block_longer"]}
    \cup {[kind |-> "key_block_from", len |-> n] : n \in {2, 4}}

RdInit ==
    \E tags \in ReadTagSeqs(MaxReadTags) :
        rd = [archive |-> BuildArchive(StringTableNew, TagSerializerNew, tags),
              source |-> tags, op |-> "none", first |-> 0, last |-> 0,
              key |-> <<>>, value |-> <<>>, p |-> [kind |-> "never"],
              result |-> None, calls |-> <<>>]

\* a call of has_tag
RdHasTag(first, last, key, value) ==
    /\ rd.op = "none"
    /\ first <= last /\ last <= Len(rd.source)
    /\ rd' = [rd EXCEPT !.op = "has_tag", !.first = first, !.last = last,
                        !.key = key, !.value = value, !.p = [kind |-> "never"],
                        !.result = Some(HasTag(rd.archive, first, last, key, value)),
                        !.calls = <<>>]
    /\ UNCHANGED rdOthers

\* a call of find_tag
RdFindTag(first, last, key) ==
    /\ rd.op = "none"
    /\ first <= last /\ last <= Len(rd.source)
    /\ LET r == FindTag(rd.archive, first, last, key)
       IN  rd' = [rd EXCEPT !.op = "find_tag", !.first = first, !.last = last,
                            !.key = key, !.value = <<>>, !.p = [kind |-> "never"],
                            !.result = r.result, !.calls = r.calls]
    /\ UNCHANGED rdOthers

\* a call of find_tag_by
RdFindTagBy(first, last, p) ==
    /\ rd.op = "none"
    /\ first <= last /\ last <= Len(rd.source)
    /\ LET r == FindTagBy(rd.archive, first, last, p)
       IN  rd' = [rd EXCEPT !.op = "find_tag_by", !.first = first, !.last = last,
                            !.key = <<>>, !.value = <<>>, !.p = p,
                            !.result = r.result, !.calls = r.calls]
    /\ UNCHANGED rdOthers

\* the caller drops what the call returned
RdReturn ==
    /\ rd.op # "none"
    /\ rd' = [rd EXCEPT !.op = "none", !.first = 0, !.last = 0, !.key = <<>>,
                        !.value = <<>>, !.p = [kind |-> "never"],
                        !.result = None, !.calls = <<>>]
    /\ UNCHANGED rdOthers

RdNext ==
    \/ \E first, last \in 0..MaxReadTags, key, value \in QueryChoices :
           RdHasTag(first, last, key, value)
    \/ \E first, last \in 0..MaxReadTags, key \in QueryChoices :
           RdFindTag(first, last, key)
    \/ \E first, last \in 0..MaxReadTags, p \in PredicateChoices :
           RdFindTagBy(first, last, p)
    \/ RdReturn

\* an archive without tags that nothing reads
RdIdle == RdInit /\ rd.source = <<>>

\* ============================================================ single calls

\* no call is made
CallIdle == call = [fn |-> "none"]

\* ---- gcd (osmflatc/src/main.rs)
GcdInit ==
    \E a, b \in 1..MaxGcdArg :
        call = [fn |-> "gcd", a |-> a, b |-> b, result |-> NoCall]

\* gcd(a, b) is called and returns
GcdCall ==
    /\ call.fn = "gcd" /\ call.result = NoCall
    /\ call' = [call EXCEPT !.result = Some(gcd(call.a, call.b))]
    /\ UNCHANGED callOthers

\* the result is used and dropped
GcdReturn ==
    /\ call.fn = "gcd" /\ call.result # NoCall
    /\ call' = [call EXCEPT !.result = NoCall]
    /\ UNCHANGED callOthers

GcdNext == GcdCall \/ GcdReturn

\* ---- BlockType::from_osmdata_blob (osmflatc/src/osmpbf.rs) on the bytes
\* of a PrimitiveBlock

\* io::Result: Ok(v) and Err(e)
Ok(v) == [tag |-> "Ok", val |-> v]
Err == [tag |-> "Err", val |-> 0]

\* prost::encoding::decode_varint on the bytes of blob from position p: the
\* low seven bits of each byte, least significant group first, up to the
\* first byte below 128; an error when the bytes end before
RECURSIVE DecodeVarintFrom(_, _, _, _)
DecodeVarintFrom(blob, p, weight, acc) ==
    IF p > Len(blob) THEN [ok |-> FALSE, val |-> 0, pos |-> p]
    ELSE IF blob[p] >= 128
         THEN DecodeVarintFrom(blob, p + 1, weight * 128,
                               acc + (blob[p] - 128) * weight)
         ELSE [ok |-> TRUE, val |-> acc + blob[p] * weight, pos |-> p + 1]

DecodeVarint(blob, p) == DecodeVarintFrom(blob, p, 1, 0)

\* prost::encoding::decode_key: a varint holding the field number above the
\* three bits of the wire type; wire types 6 and 7 and field number 0 are
\* errors
DecodeKey(blob, p) ==
    LET v == DecodeVarint(blob, p)
    IN  IF ~v.ok \/ v.val % 8 > 5 \/ v.val \div 8 = 0
        THEN [ok |-> FALSE, key |-> 0, wire_type |-> 0, pos |-> p]
        ELSE [ok |-> TRUE, key |-> v.val \div 8, wire_type |-> v.val % 8,
              pos |-> v.pos]

\* (mutant) the payload of a length-delimited field is not passed over
RECURSIVE SkipFieldLengthOnly(_, _, _, _)
SkipFieldLengthOnly(blob, wire_type, key, p) ==
    LET advance(from, len) ==
            IF from + len - 1 > Len(blob) THEN [ok |-> FALSE, pos |-> from]
            ELSE [ok |-> TRUE, pos |-> from + len]
    IN  CASE wire_type = 0 ->
                LET v == DecodeVarint(blob, p) IN [ok |-> v.ok, pos |-> v.pos]
          [] wire_type = 1 -> advance(p, 8)
          [] wire_type = 2 ->
                LET v == DecodeVarint(blob, p)
                IN  IF v.ok THEN advance(v.pos, 0) ELSE [ok |-> FALSE, pos |-> p]
          [] wire_type = 3 ->
                LET k == DecodeKey(blob, p)
                IN  IF ~k.ok THEN [ok |-> FALSE, pos |-> p]
                    ELSE IF k.wire_type = 4
                         THEN [ok |-> k.key = key, pos |-> k.pos]
                         ELSE LET s == SkipFieldLengthOnly(blob, k.wire_type,
                                                           k.key, k.pos)
                              IN  IF s.ok
                                  THEN SkipFieldLengthOnly(blob, 3, key, s.pos)
                                  ELSE s
          [] wire_type = 4 -> [ok |-> FALSE, pos |-> p]
          [] wire_type = 5 -> advance(p, 4)

\* prost::encoding::skip_field from position p, behind the key: a varint,
\* eight bytes, a length and as many bytes, the fields of a group up to its
\* end, or four bytes; an error when the bytes do not reach
RECURSIVE SkipField(_, _, _, _)
SkipField(blob, wire_type, key, p) ==
    LET advance(from, len) ==
            IF from + len - 1 > Len(blob) THEN [ok |-> FALSE, pos |-> from]
            ELSE [ok |-> TRUE, pos |-> from + len]
    IN  CASE wire_type = 0 ->
                LET v == DecodeVarint(blob, p) IN [ok |-> v.ok, pos |-> v.pos]
          [] wire_type = 1 -> advance(p, 8)
          [] wire_type = 2 ->
                LET v == DecodeVarint(blob, p)
                IN  IF v.ok THEN advance(v.pos, v.val) ELSE [ok |-> FALSE, pos |-> p]
          [] wire_type = 3 ->
                LET k == DecodeKey(blob, p)
                IN  IF ~k.ok THEN [ok |-> FALSE, pos |-> p]
                    ELSE IF k.wire_type = 4
                         THEN [ok |-> k.key = key, pos |-> k.pos]
                         ELSE LET s == SkipField(blob, k.wire_type, k.key, k.pos)
                              IN  IF s.ok THEN SkipField(blob, 3, key, s.pos)
                                  ELSE s
          [] wire_type = 4 -> [ok |-> FALSE, pos |-> p]
          [] wire_type = 5 -> advance(p, 4)

\* match tag { NODES_TAG => .., DENSE_NODES_TAG => .., WAY_STAG => ..,
\* RELATIONS_TAG => .., CHANGESETS_TAG => panic!, _ => panic! }
MatchTag(tag) ==
    CASE tag = 1 -> Ok("Nodes")
      [] tag = 2 -> Ok("DenseNodes")
      [] tag = 3 -> Ok("Ways")
      [] tag = 4 -> Ok("Relations")
      [] OTHER -> Panic

\* the loop of from_osmdata_blob from position p of the blob
RECURSIVE FromOsmdataBlobFrom(_, _)
FromOsmdataBlobFrom(blob, p) ==
    LET k == DecodeKey(blob, p)
    IN  IF ~k.ok THEN Err
        ELSE IF k.key # 2
             THEN LET s == SkipField(blob, k.wire_type, k.key, k.pos)
                  IN  IF s.ok THEN FromOsmdataBlobFrom(blob, s.pos) ELSE Err
             ELSE LET n == DecodeVarint(blob, k.pos)
                      t == DecodeKey(blob, n.pos)
                  IN  IF ~n.ok \/ ~t.ok THEN Err ELSE MatchTag(t.key)

\* BlockType::from_osmdata_blob(blob)
FromOsmdataBlob(blob) == FromOsmdataBlobFrom(blob, 1)

\* ---- the bytes of a PrimitiveBlock, as a protobuf encoder writes them
RECURSIVE EncodeVarint(_)
EncodeVarint(v) ==
    IF v < 128 THEN <<v>> ELSE <<128 + (v % 128)>> \o EncodeVarint(v \div 128)

\* a field: its key, and a varint or a length and the payload
EncodeField(f) ==
    EncodeVarint(f.key * 8 + f.wire_type)
        \o (IF f.wire_type = 0 THEN EncodeVarint(f.value)
            ELSE EncodeVarint(Len(f.payload)) \o f.payload)

RECURSIVE EncodeFields(_)
EncodeFields(fs) ==
    IF fs = <<>> THEN <<>> ELSE EncodeField(Head(fs)) \o EncodeFields(Tail(fs))

\* a PrimitiveGroup whose sub-fields have the field numbers given, each a
\* message of two bytes
PrimitiveGroup(numbers) ==
    [key |-> 2, wire_type |-> 2, numbers |-> numbers,
     payload |-> EncodeFields([i \in 1..Len(numbers) |->
                     [key |-> numbers[i], wire_type |-> 2, payload |-> <<8, 1>>]])]

\* fields of a PrimitiveBlock: a stringtable (field 1) whose strings hold
\* the bytes of keys, granularity (17) and lat_offset (19) as varints of one
\* and two bytes, and primitivegroups (2) of nodes, dense nodes, ways,
\* relations, changesets, of an unknown kind, and without a sub-field
BlobFieldChoices ==
    {[key |-> 1, wire_type |-> 2, numbers |-> <<>>,
      payload |-> <<10, 2, 18, 0, 10, 1, 26>>],
     [key |-> 17, wire_type |-> 0, numbers |-> <<>>, value |-> 1000],
     [key |-> 19, wire_type |-> 0, numbers |-> <<>>, value |-> 18]}
    \cup {PrimitiveGroup(n) : n \in {<<1>>, <<2>>, <<3, 3>>, <<4>>, <<5>>,
                                      <<6>>, <<>>}}

BlobFieldSeqs(n) == UNION {[1..k -> BlobFieldChoices] : k \in 0..n}

BlobInit ==
    \E fields \in BlobFieldSeqs(MaxBlobFields) :
        call = [fn |-> "from_osmdata_blob", fields |-> fields,
                blob |-> EncodeFields(fields), result |-> NoCall]

\* from_osmdata_blob(blob) is called and returns or panics
BlobCall ==
    /\ call.fn = "from_osmdata_blob" /\ call.result = NoCall
    /\ call' = [call EXCEPT !.result = FromOsmdataBlob(call.blob)]
    /\ UNCHANGED callOthers

\* the result is used and dropped
BlobReturn ==
    /\ call.fn = "from_osmdata_blob" /\ call.result # NoCall
    /\ call' = [call EXCEPT !.result = NoCall]
    /\ UNCHANGED callOthers

BlobNext == BlobCall \/ BlobReturn

\* ============================================================ specifications

\* a compile that has not started, run without --ids
CIdle == CInit /\ run.args_ids = FALSE

\* no coordinates: an input without dense-node blocks and bounding box
CoordIdle == CoordInit /\ coords.blocks = <<>> /\ coords.bbox = None

\* the state of a parallel_process that is not running: no items, one worker
ParIdle == ParInit /\ num_threads = 1 /\ num_items = 0

\* parallel_process on its own
InitPar == ParInit /\ IdInit /\ StInit /\ TsInit /\ CIdle /\ CoordIdle /\ IdxIdle /\ MxIdle /\ RdIdle /\ CallIdle
SpecPar == InitPar /\ [][ParNext]_vars

\* the id table on its own
InitIds == IdInit /\ ParIdle /\ StInit /\ TsInit /\ CIdle /\ CoordIdle /\ IdxIdle /\ MxIdle /\ RdIdle /\ CallIdle
SpecIds == InitIds /\ [][IdNext]_vars


\* the string table on its own
InitStr == StInit /\ ParIdle /\ IdInit /\ TsInit /\ CIdle /\ CoordIdle /\ IdxIdle /\ MxIdle /\ RdIdle /\ CallIdle
SpecStr == InitStr /\ [][StNext]_vars

\* the tag serializer on its own
InitTags == TsInit /\ ParIdle /\ IdInit /\ StInit /\ CIdle /\ CoordIdle /\ IdxIdle /\ MxIdle /\ RdIdle /\ CallIdle
SpecTags == InitTags /\ [][TsNext]_vars

\* one compile
InitCompile == CInit /\ ParIdle /\ IdInit /\ StInit /\ TsInit /\ CoordIdle /\ IdxIdle /\ MxIdle /\ RdIdle /\ CallIdle
SpecCompile == InitCompile /\ [][CNext]_vars

\* the coordinates of one compile
InitCoords == CoordInit /\ ParIdle /\ IdInit /\ StInit /\ TsInit /\ CIdle /\ IdxIdle /\ MxIdle /\ RdIdle /\ CallIdle
SpecCoords == InitCoords /\ [][CoordNext]_vars

\* build_block_index on its own
InitIndex == IdxInit /\ MxIdle /\ ParIdle /\ IdInit /\ StInit /\ TsInit /\ CIdle /\ CoordIdle /\ RdIdle /\ CallIdle
\* parallel_process under fair scheduling: a thread that can take its next
\* step takes it (the operating system runs every runnable thread, a
\* notify_all wakes every waiter, the mutexes are released after each step)
ParFairness ==
    /\ \A w \in 1..MaxThreads :
           /\ WF_vars(w \in Workers /\ WorkerNext(w))
           /\ WF_vars(w \in Workers /\ WorkerProduce(w))
           /\ WF_vars(w \in Workers /\ WorkerWait(w))
           /\ WF_vars(w \in Workers /\ WorkerSend(w))
    /\ WF_vars(MainRecv)
    /\ WF_vars(MainDeliver)
    /\ WF_vars(MainConsume)
    /\ WF_vars(MainGarbageSend)
    /\ WF_vars(GarbageDrop)
    /\ WF_vars(ScopeJoin)
SpecParFair == InitPar /\ [][ParNext]_vars /\ ParFairness

SpecIndex == InitIndex /\ [][IdxNext]_vars

\* the readers of tags.rs on an archive
InitRead == RdInit /\ ParIdle /\ IdInit /\ StInit /\ TsInit /\ CIdle /\ CoordIdle
            /\ IdxIdle /\ MxIdle /\ CallIdle

\* gcd on its own
InitGcd == GcdInit /\ ParIdle /\ IdInit /\ StInit /\ TsInit /\ CIdle /\ CoordIdle
           /\ IdxIdle /\ MxIdle /\ RdIdle
SpecGcd == InitGcd /\ [][GcdNext]_vars
InitBlob == ParIdle /\ IdInit /\ StInit /\ TsInit /\ CIdle /\ CoordIdle
            /\ IdxIdle /\ MxIdle /\ RdIdle /\ BlobInit
SpecBlob == InitBlob /\ [][BlobNext]_vars

\* build_block_index over the shared iterator on its own
InitMutexIndex == ParIdle /\ IdInit /\ StInit /\ TsInit /\ CIdle /\ CoordIdle
                  /\ IdxIdle /\ RdIdle /\ CallIdle /\ MxInit
SpecMutexIndex == InitMutexIndex /\ [][MxNext]_vars
SpecRead == InitRead /\ [][RdNext]_vars

\* ---------------------------------------------------------------- claims
\* the call is over: it returned the closure's result or it panicked
ParTerminated == mpc \in {"returned", "panicked"}

\* a worker that waits for a turn that can no longer come: the closure has
\* returned, so the counter stays where it is
BlockedForever(w) ==
    /\ mpc \in {"join", "returned", "panicked"}
    /\ wpc[w] = "wait"
    /\ MustWait(next, witem[w])

\* C1: consume is invoked on the items in exactly the order of the input
\* iterator (the k-th call is on item k-1: none early, skipped or repeated),
\* and a call that returns Ok has consumed every item.
C1_ConsumedInInputOrder ==
    /\ \A k \in 1..Len(consumed) : consumed[k] = k - 1
    /\ (mpc = "returned" /\ ret = "Ok") => Len(consumed) = num_items

\* C1 witness: a result that arrived ahead of its turn is held back in
\* pending while earlier items have already been consumed.
C1_Witness ==
    /\ mpc = "recv"
    /\ pending # {}
    /\ Len(consumed) >= 2
    /\ num_items > 2 * num_threads

\* C2: once consume has returned an error the call terminates and returns
\* that error: it does not panic and no worker stays blocked for ever.
C2_ErrorIsReturned ==
    ret = "Err" =>
        /\ mpc # "panicked"
        /\ \A w \in Workers : ~BlockedForever(w)

\* ---------------------------------------------------------------- claims
\* the rank of x among the inserted ids, as an Option: Some(k) when x is the
\* k-th id inserted (from 0), None when x was not inserted
InsertedRank(x) ==
    IF \E k \in 1..Len(id_inserted) : id_inserted[k] = x
    THEN Some((CHOOSE k \in 1..Len(id_inserted) : id_inserted[k] = x) - 1)
    ELSE None

\* C3: after build, get(x) is Some(k) for the k-th inserted id and None for
\* every id that was not inserted.
C3_GetMapsInsertedIds ==
    (id_phase = "built" /\ id_res # NoCall) => id_res = InsertedRank(id_x)

\* The part of C3 that the code meets: the same, for every id whose bucket
\* is not the one just past the last bucket of the table.
IdTableGetInsideTable ==
    (id_phase = "built" /\ id_res # NoCall
         /\ id_x \div ID_BLOCK_SIZE # Len(idt_data))
        => id_res = InsertedRank(id_x)

\* C4: get returns normally for every id: it never indexes out of bounds.
C4_GetNeverPanics ==
    id_res # Panic

\* the strings inserted so far
StInserted == {p[1] : p \in st_hist}

\* the sum of Len(s) + 1 over a set of strings
RECURSIVE StoredSize(_)
StoredSize(S) ==
    IF S = {} THEN 0
    ELSE LET s == CHOOSE t \in S : TRUE
         IN  Len(s) + 1 + StoredSize(S \ {s})

\* C8: over NUL-free strings, equal strings always get the same offset and
\* different strings different offsets, and a repeated insert stores
\* nothing: the bytes stored and size_in_bytes are those of the distinct
\* strings.
C8_InsertDeduplicates ==
    (\A s \in StInserted : NulFree(s)) =>
        /\ \A p, q \in st_hist : (p[1] = q[1]) <=> (p[2] = q[2])
        /\ stringtable.size_in_bytes = StoredSize(StInserted)
        /\ Len(StringTableIntoBytes(stringtable)) = StoredSize(StInserted)

\* C8 witness: a string is inserted again after three different NUL-free
\* strings were stored in more than one buffer.
C8_Witness ==
    /\ st_repeated
    /\ \A s \in StInserted : NulFree(s)
    /\ Cardinality(StInserted) >= 3
    /\ Len(stringtable.data) >= 2

\* C9: in the bytes returned by into_bytes every inserted string stands at
\* the offset insert returned for it, followed by a NUL byte.
C9_BlobHoldsStrings ==
    st_phase = "finalized" =>
        \A p \in st_hist :
            /\ p[2] + Len(p[1]) + 1 <= Len(st_blob)
            /\ SubSeq(st_blob, p[2] + 1, p[2] + Len(p[1])) = p[1]
            /\ st_blob[p[2] + Len(p[1]) + 1] = 0

\* C9 witness: into_bytes of a table of several buffers into which the
\* empty string was inserted after other strings.
C9_Witness ==
    /\ st_phase = "finalized"
    /\ Len(stringtable.data) >= 2
    /\ \E p \in st_hist : p[1] = <<>> /\ p[2] > 0
    /\ Cardinality(st_hist) >= 3

\* C7: whatever was serialized, with offsets that fit an I40, no two rows
\* of the Tag column hold the same (key_idx, value_idx).
C7_TagRowsDistinct ==
    (\A i \in 1..Len(tagser.ts.tags) :
         I40Fits(tagser.ts.tags[i].key_idx) /\ I40Fits(tagser.ts.tags[i].value_idx))
    => \A i, j \in 1..Len(tagser.ts.tags) :
           tagser.ts.tags[i] = tagser.ts.tags[j] => i = j

\* C7 witness: a pair was serialized again after other pairs: there are
\* more TagIndex rows than Tag rows, and several Tag rows.
C7_Witness ==
    /\ Len(tagser.ts.tags) >= 2
    /\ Len(tagser.ts.tags_index) > Len(tagser.ts.tags)
    /\ \A i \in 1..Len(tagser.ts.tags) :
           I40Fits(tagser.ts.tags[i].key_idx) /\ I40Fits(tagser.ts.tags[i].value_idx)

\* tag_first_idx does not decrease from a row to the next
TagFirstIdxSorted(rows) ==
    \A i \in 1..(Len(rows) - 1) : rows[i].tag_first_idx <= rows[i + 1].tag_first_idx

\* C5: after a compile that succeeded, tag_first_idx does not decrease from
\* a row to the next, the sentinel included, in the nodes, the ways and the
\* relations.
C5_TagFirstIdxSorted ==
    c_phase = "done" =>
        /\ TagFirstIdxSorted(run.nodes)
        /\ TagFirstIdxSorted(run.ways)
        /\ TagFirstIdxSorted(run.relations)

\* the rows of a column, the sentinel last, give every entity the tags it
\* has in the source; an entity without tags has an empty range
RowsHoldTags(rows, entities) ==
    /\ Len(rows) = Len(entities) + 1
    /\ \A i \in 1..Len(entities) :
           /\ IterTags(run, rows[i].tag_first_idx, rows[i + 1].tag_first_idx)
                  = entities[i]
           /\ entities[i] = <<>> => rows[i].tag_first_idx = rows[i + 1].tag_first_idx

\* C6: in a compiled archive iter_tags over the range of a node, a way or a
\* relation yields the tags the entity has in the source, in their order,
\* and the range of an entity without tags is empty.
C6_RangesHoldSourceTags ==
    c_phase = "done" =>
        /\ RowsHoldTags(run.nodes, source.nodes)
        /\ RowsHoldTags(run.ways, source.ways)
        /\ RowsHoldTags(run.relations, source.relations)

\* the members of type t in the source whose id is not among ids
UnresolvedMembers(t, ids) ==
    Cardinality({i \in 1..Len(source.members) :
                     source.members[i].type = t /\ source.members[i].id \notin ids})

\* the way refs in the source that are no node id
UnresolvedWayRefs ==
    Cardinality({i \in 1..Len(source.way_refs) : source.way_refs[i] \notin source.node_ids})

\* the ids of the entities of the type a member names
SourceIds(t) ==
    IF t = "Node" THEN source.node_ids
    ELSE IF t = "Way" THEN source.way_ids
    ELSE source.relation_ids

RECURSIVE Flatten(_)
Flatten(qs) == IF qs = <<>> THEN <<>> ELSE Head(qs) \o Flatten(Tail(qs))

\* C10: after a compile every relation member whose target is not in the
\* source is stored with the absent index, and each unresolved counter
\* holds the number of such members of its type (the node counter also the
\* unresolved refs of the ways).
C10_UnresolvedMembersCounted ==
    c_phase = "done" =>
        /\ LET stored == Flatten(run.relation_members)
           IN  /\ Len(stored) = Len(source.members)
               /\ \A i \in 1..Len(stored) :
                      /\ stored[i].type = source.members[i].type
                      /\ (stored[i].idx = None) <=>
                             (source.members[i].id \notin SourceIds(stored[i].type))
        /\ run.stats.num_unresolved_way_ids = UnresolvedMembers("Way", source.way_ids)
        /\ run.stats.num_unresolved_rel_ids =
               UnresolvedMembers("Relation", source.relation_ids)
        /\ run.stats.num_unresolved_node_ids =
               UnresolvedMembers("Node", source.node_ids) + UnresolvedWayRefs

\* the refs that a step of the ways phase has read
NewWayRefs ==
    SubSeq(source'.way_refs, Len(source.way_refs) + 1, Len(source'.way_refs))

\* a way block is consumed without failing: every ref that is no node id of
\* the file gets an absent NodeIndex row and counts once
WayBlockResolved ==
    /\ c_phase' = "ways"
    /\ Len(run'.nodes_index) = Len(run.nodes_index) + Len(NewWayRefs)
    /\ \A i \in 1..Len(NewWayRefs) :
           (run'.nodes_index[Len(run.nodes_index) + i] = None)
               <=> (NewWayRefs[i] \notin source.node_ids)
    /\ run'.stats.num_unresolved_node_ids =
           run.stats.num_unresolved_node_ids
               + Cardinality({i \in 1..Len(NewWayRefs) :
                                  NewWayRefs[i] \notin source.node_ids})

\* C11: consuming a way block never fails the compile over a ref to a node
\* id that is not in the node table: the NodeIndex row of such a ref is
\* absent and num_unresolved_node_ids grows by one for each.
C11_AbsentRefsDoNotFail ==
    [][(c_phase = "ways" /\ c_blocks' # c_blocks) => WayBlockResolved]_vars

\* the place of id x among ids in increasing order, from 0
RankIn(ids, x) == Cardinality({y \in ids : y < x})

\* the relation ids of the blocks that are indexed and not yet serialized
PendingRelationIds ==
    UNION {{r.id : r \in Range(GroupRelations(rel_blocks[k].primitivegroup))} :
           k \in 1..Len(rel_blocks)}

\* C12: from before the first relation row is written the relation table
\* holds every relation id of every relation block, so a member that names
\* a relation of the file, be it of a later block, is stored with the row
\* index of that relation and is not counted as unresolved.
C12_RelationTableComplete ==
    c_phase \in {"relations", "done"} =>
        /\ \A x \in source.relation_ids :
               IdTableGet(run.relations_table, x) = Some(RankIn(source.relation_ids, x))
        /\ PendingRelationIds \subseteq source.relation_ids
        /\ LET stored == Flatten(run.relation_members)
           IN  \A i \in 1..Len(stored) :
                   (stored[i].type = "Relation"
                        /\ source.members[i].id \in source.relation_ids)
                   => stored[i].idx = Some(RankIn(source.relation_ids, source.members[i].id))
        /\ run.stats.num_unresolved_rel_ids
               <= UnresolvedMembers("Relation", source.relation_ids)

\* C12 witness: a member names a relation of a block that is still to be
\* serialized, and is stored with an index.
C12_Witness ==
    /\ c_phase = "relations"
    /\ LET stored == Flatten(run.relation_members)
       IN  \E i \in 1..Len(stored) :
               /\ stored[i].type = "Relation"
               /\ source.members[i].id \in PendingRelationIds
               /\ stored[i].idx.tag = "Some"

\* every id of seq is found in table at its place in seq, and the ids
\* column, where it is written, holds the id at that row
IdsAtRows(table, seq, ids_column) ==
    /\ \A k \in 1..Len(seq) : IdTableGet(table, seq[k]) = Some(k - 1)
    /\ run.args_ids => ids_column = seq

\* a get of the compile so far panics
SomeGetPanics ==
    \/ \E i \in 1..Len(source.way_refs) :
           IdTableGet(run.nodes_table, source.way_refs[i]).tag = "Panic"
    \/ \E i \in 1..Len(source.members) :
           IdTableGet(MemberTable(run, source.members[i].type),
                      source.members[i].id).tag = "Panic"

\* C13: the builders hand out the row numbers: next_id is the number of
\* rows while a phase runs, the assertions on it do not fail (a compile
\* that has started to write panics only in a get; before that it panics on
\* a block of plain nodes), and once a table is built get of the k-th entity
\* read is row k of its column and of its ids column; for relations the
\* table is that of the first pass and the rows are those of the second.
C13_IdsAreRowNumbers ==
    /\ c_phase = "panicked" => (source.plain \/ SomeGetPanics)
    /\ c_phase = "nodes" =>
           /\ run.nodes_id_to_idx.next_id = Len(run.nodes)
           /\ Len(run.nodes) = Len(source.node_seq)
    /\ c_phase = "ways" =>
           /\ run.ways_id_to_idx.next_id = Len(run.ways)
           /\ Len(run.ways) = Len(source.way_seq)
    /\ c_phase \in {"ways", "relations_index", "relations", "done"} =>
           /\ IdsAtRows(run.nodes_table, source.node_seq, run.node_ids)
           /\ Len(run.nodes) = Len(source.node_seq) + 1
    /\ c_phase \in {"relations_index", "relations", "done"} =>
           /\ IdsAtRows(run.ways_table, source.way_seq, run.way_ids)
           /\ Len(run.ways) = Len(source.way_seq) + 1
    /\ c_phase \in {"relations", "done"} =>
           /\ IdsAtRows(run.relations_table, source.relation_seq, run.relation_ids)
           /\ Len(run.relations) =
                  Len(source.relation_seq) + (IF c_phase = "done" THEN 1 ELSE 0)

\* C13 witness: a compile with the ids archive that read nodes, ways and
\* relations and wrote a row for each.
C13_Witness ==
    /\ c_phase = "done"
    /\ run.args_ids
    /\ Len(source.node_seq) >= 2
    /\ Len(source.way_seq) >= 1
    /\ Len(source.relation_seq) >= 2
    /\ Len(run.relation_ids) = Len(source.relation_seq)

\* the number of tags of a sequence of entities
RECURSIVE CountTags(_)
CountTags(entities) ==
    IF entities = <<>> THEN 0 ELSE Len(Head(entities)) + CountTags(Tail(entities))

\* the last row of a column
LastRow(rows) == rows[Len(rows)]

\* C14: a column has no sentinel while its phase runs and one sentinel
\* after it: N+1, W+1 and R+1 rows for N nodes, W ways and R relations,
\* whatever the number of blocks; the sentinel holds the number of TagIndex
\* rows at the end of its phase, the way sentinel also the number of
\* NodeIndex rows.
C14_OneSentinelPerColumn ==
    /\ c_phase \in {"header", "nodes"} => Len(run.nodes) = Len(source.node_seq)
    /\ c_phase \in {"header", "nodes", "ways"} => Len(run.ways) = Len(source.way_seq)
    /\ c_phase \in {"header", "nodes", "ways", "relations_index", "relations"} =>
           Len(run.relations) = Len(source.relation_seq)
    /\ c_phase \in {"ways", "relations_index", "relations", "done"} =>
           /\ Len(run.nodes) = Len(source.node_seq) + 1
           /\ LastRow(run.nodes).tag_first_idx = CountTags(source.nodes)
    /\ c_phase \in {"relations_index", "relations", "done"} =>
           /\ Len(run.ways) = Len(source.way_seq) + 1
           /\ LastRow(run.ways).tag_first_idx =
                  CountTags(source.nodes) + CountTags(source.ways)
           /\ LastRow(run.ways).ref_first_idx = Len(run.nodes_index)
           /\ Len(run.nodes_index) = Len(source.way_refs)
    /\ c_phase = "done" =>
           /\ Len(run.relations) = Len(source.relation_seq) + 1
           /\ LastRow(run.relations).tag_first_idx = Len(run.tags.tags_index)
           /\ Len(run.tags.tags_index) =
                  CountTags(source.nodes) + CountTags(source.ways)
                      + CountTags(source.relations)

\* C14 witness: a compile of a file with tagged nodes and relations and no
\* way block.
C14_Witness ==
    /\ c_phase = "done"
    /\ source.way_seq = <<>>
    /\ Len(source.node_seq) >= 2
    /\ CountTags(source.nodes) >= 2
    /\ Len(source.relation_seq) >= 1

\* the NodeIndex row of a reference to node id x
ResolvedNode(x) ==
    IF x \in source.node_ids THEN Some(RankIn(source.node_ids, x)) ELSE None

\* C15: once the ways are written ref_first_idx does not decrease from a
\* way row to the next, and the NodeIndex rows between the two are the
\* refs of the way in their order, each the row of the node or absent;
\* NodeIndex holds one row per ref.
C15_RefRangesHoldWayRefs ==
    c_phase \in {"relations_index", "relations", "done"} =>
        /\ Len(run.ways) = Len(source.way_nodes) + 1
        /\ Len(run.nodes_index) = Len(source.way_refs)
        /\ \A i \in 1..Len(source.way_nodes) :
               /\ run.ways[i].ref_first_idx <= run.ways[i + 1].ref_first_idx
               /\ run.ways[i + 1].ref_first_idx <= Len(run.nodes_index)
               /\ SubSeq(run.nodes_index, run.ways[i].ref_first_idx + 1,
                         run.ways[i + 1].ref_first_idx)
                      = [j \in 1..Len(source.way_nodes[i]) |->
                            ResolvedNode(source.way_nodes[i][j])]

\* C15 witness: the ways are written, among them a way without refs and a
\* way of two refs, one to a node of the file and one to none.
C15_Witness ==
    /\ c_phase \in {"relations_index", "relations", "done"}
    /\ \E i \in 1..Len(source.way_nodes) : source.way_nodes[i] = <<>>
    /\ \E i \in 1..Len(source.way_nodes) :
           /\ Len(source.way_nodes[i]) = 2
           /\ ResolvedNode(source.way_nodes[i][1]).tag = "Some"
           /\ ResolvedNode(source.way_nodes[i][2]) = None

\* offset o of the string table is 0 or stands right after a NUL byte
AtStringStart(blob, o) == o < Len(blob) /\ (o = 0 \/ blob[o] = 0)

\* all tags of the entities read
SourceTags ==
    UNION {Range(source.nodes[i]) : i \in 1..Len(source.nodes)}
    \cup UNION {Range(source.ways[i]) : i \in 1..Len(source.ways)}
    \cup UNION {Range(source.relations[i]) : i \in 1..Len(source.relations)}

Granularities(blocks) ==
    {UnwrapOr(blocks[i].granularity, 100) : i \in 1..Len(blocks)}

\* the greatest number that divides every member of the set S
GreatestCommonDivisor(S) ==
    CHOOSE d \in 1..1000 :
        /\ \A g \in S : g % d = 0
        /\ \A e \in 1..1000 : (\A g \in S : g % e = 0) => e <= d

\* C17: once the nodes of an input with dense-node blocks are written,
\* the header's coord_scale is 1000000000 / g, with g the greatest common
\* divisor of the granularities of the blocks, and every lat and lon and
\* every side of the bounding box is the source value divided, with
\* integer division, by 1000000000 / coord_scale.
C17_ScaleIsGcdOfGranularities ==
    (coords.phase = "nodes" /\ coords.k = Len(coords.blocks) /\ coords.blocks # <<>>) =>
        LET h == coords.header.val
            d == 1000000000 \div h.coord_scale
        IN  /\ h.coord_scale
                 = 1000000000 \div GreatestCommonDivisor(Granularities(coords.blocks))
            /\ Len(coords.nodes) = Len(coords.fixed)
            /\ \A i \in 1..Len(coords.nodes) :
                   /\ coords.nodes[i].lat = TruncDiv(coords.fixed[i].lat, d)
                   /\ coords.nodes[i].lon = TruncDiv(coords.fixed[i].lon, d)
            /\ coords.bbox.tag = "Some" =>
                   /\ h.bbox.val.left = TruncDiv(coords.bbox.val.left, d)
                   /\ h.bbox.val.right = TruncDiv(coords.bbox.val.right, d)
                   /\ h.bbox.val.top = TruncDiv(coords.bbox.val.top, d)
                   /\ h.bbox.val.bottom = TruncDiv(coords.bbox.val.bottom, d)

\* the Data values a worker has produced and still holds: it waits on the
\* counter or stands before send
HeldByWorkers == Cardinality({w \in Workers : wpc[w] \in {"wait", "send"}})

\* the Data values sent and not yet taken out of pending; the receiver and
\* pending hold them as long as the closure has not returned
SentNotDelivered ==
    IF ReceiverAlive THEN Len(channel) + Cardinality(pending) ELSE 0

\* the Data values produced and not yet handed to consume
Outstanding ==
    HeldByWorkers + SentNotDelivered + (IF mpc = "consume" THEN 1 ELSE 0)

\* C18 (as stated): at most 2 x num_threads Data values are produced and
\* not yet handed to consume.
C18_AtMostTwiceThreads == Outstanding <= 2 * num_threads

\* C18 (amended): at most 2 x num_threads values are sent and not yet
\* delivered, a worker sends item i only once the counter is above i, and
\* with the value each worker holds and the one taken for consume at most
\* 3 x num_threads + 1 values are outstanding.
C18_OutstandingBounded ==
    /\ SentNotDelivered <= 2 * num_threads
    /\ \A w \in Workers : wpc[w] = "send" => witem[w] < next
    /\ Outstanding <= 3 * num_threads + 1

\* C18 witness: the bound is met while a worker that has produced waits for
\* the consumer.
C18_Witness ==
    /\ Outstanding = 3 * num_threads + 1
    /\ \E w \in Workers : wpc[w] = "wait" /\ MustWait(next, witem[w])

\* the steps of run in the order of the program text
RunSteps ==
    <<"header",
      "nodes", "nodes.close", "node_ids.close", "nodes_id_to_idx.build",
      "ways", "ways.close", "way_ids.close", "nodes_index.close",
      "ways_id_to_idx.build",
      "relations_index", "relations", "relations.close", "relation_ids.close",
      "relation_members.close",
      "tags.close", "tags_index.close", "set_stringtable", "open">>

\* the steps taken once for every block
BlockSteps == {"nodes", "ways", "relations"}

StepRank(e) == CHOOSE i \in 1..Len(RunSteps) : RunSteps[i] = e

\* the steps of the log follow the order of RunSteps, and only the steps
\* on blocks are taken more than once
InRunOrder(log) ==
    \A i, j \in 1..Len(log) :
        i < j => \/ StepRank(log[i]) < StepRank(log[j])
                 \/ log[i] = log[j] /\ log[i] \in BlockSteps

\* C19: the compile takes its steps in the order header, nodes, ways,
\* relations, string table, re-open. Way rows and node references exist
\* only after the node vectors are closed and the node id table is built,
\* relation rows only after the way vectors are closed and the way id table
\* is built, the string table is written only after the entity vectors of
\* all three phases and the tag vectors are closed, and a closed column
\* holds a row for every entity read and the sentinel.
C19_PhasesInOrder ==
    /\ InRunOrder(run.log)
    /\ (run.ways # <<>> \/ run.nodes_index # <<>> \/ source.way_seq # <<>>) =>
           {"nodes.close", "nodes_id_to_idx.build"} \subseteq Range(run.log)
    /\ (run.relations # <<>> \/ run.relation_members # <<>>
            \/ source.relation_seq # <<>>) =>
           {"ways.close", "nodes_index.close", "ways_id_to_idx.build"}
               \subseteq Range(run.log)
    /\ (run.blob # <<>> \/ "set_stringtable" \in Range(run.log)) =>
           {"nodes.close", "ways.close", "nodes_index.close", "relations.close",
            "relation_members.close", "tags.close", "tags_index.close"}
               \subseteq Range(run.log)
    /\ "nodes.close" \in Range(run.log) =>
           Len(run.nodes) = Len(source.node_seq) + 1
    /\ "ways.close" \in Range(run.log) =>
           Len(run.ways) = Len(source.way_seq) + 1
    /\ "relations.close" \in Range(run.log) =>
           Len(run.relations) = Len(source.relation_seq) + 1
    /\ c_phase = "done" =>
           /\ run.log[Len(run.log)] = "open"
           /\ run.args_ids => {"node_ids.close", "way_ids.close",
                               "relation_ids.close"} \subseteq Range(run.log)

\* C19 witness: a compile with ids that has read a block of every kind and
\* has re-opened the archive.
C19_Witness ==
    /\ c_phase = "done"
    /\ run.args_ids
    /\ BlockSteps \subseteq Range(run.log)
    /\ run.blob # <<>>

\* every offset given to serialize so far fits an I40
CallsFit ==
    \A i \in 1..Len(tagser.calls) :
        I40Fits(tagser.calls[i][1]) /\ I40Fits(tagser.calls[i][2])

\* C20: after calls of serialize with offsets that fit an I40, there is
\* one TagIndex row for every call, the Tag row it names holds the offsets
\* of the call, the Tag column has one row for every different pair, and
\* next_index() is the number of calls.
C20_SerializeAppendsIndexRow ==
    CallsFit =>
        /\ Len(tagser.ts.tags_index) = Len(tagser.calls)
        /\ \A i \in 1..Len(tagser.calls) :
               /\ tagser.ts.tags_index[i] < Len(tagser.ts.tags)
               /\ tagser.ts.tags[tagser.ts.tags_index[i] + 1]
                      = [key_idx |-> tagser.calls[i][1],
                         value_idx |-> tagser.calls[i][2]]
        /\ Len(tagser.ts.tags) = Cardinality(Range(tagser.calls))
        /\ NextIndex(tagser.ts) = Len(tagser.calls)

\* C20 witness: a pair was serialized twice with another pair of the same
\* key in between; two TagIndex rows name one Tag row.
C20_Witness ==
    /\ CallsFit
    /\ \E i, j, k \in 1..Len(tagser.calls) :
           /\ i < k /\ k < j
           /\ tagser.calls[i] = tagser.calls[j]
           /\ tagser.calls[k] # tagser.calls[i]
           /\ tagser.calls[k][1] = tagser.calls[i][1]
           /\ tagser.ts.tags_index[i] = tagser.ts.tags_index[j]

\* C21: after inserts of NUL-free strings the bytes returned by into_bytes
\* are those of the reference table: every distinct string once, in the
\* order of its first insertion, followed by one NUL byte, and nothing
\* else.
C21_BlobIsReference ==
    (st_phase = "finalized" /\ \A s \in st_ref.words : NulFree(s)) =>
        st_blob = st_ref.data

\* C21 witness: into_bytes of a table of at least three different strings
\* held in several buffers.
C21_Witness ==
    /\ st_phase = "finalized"
    /\ \A s \in st_ref.words : NulFree(s)
    /\ Cardinality(st_ref.words) >= 3
    /\ Cardinality(st_hist) >= 3
    /\ Len(stringtable.data) >= 2
    /\ st_blob # <<>>

\* no row of an entity column, no tag and no string is written
NothingWritten ==
    /\ run.nodes = <<>> /\ run.ways = <<>> /\ run.relations = <<>>
    /\ run.nodes_index = <<>> /\ run.relation_members = <<>>
    /\ run.tags = TagSerializerNew
    /\ run.stringtable = StringTableNew
    /\ run.log = <<>>

AllDecode == \A k \in 1..Len(bidx.file) : bidx.file[k].decodes

\* C23: for a file whose blocks all decode, build_block_index returns one
\* descriptor for every block, each before every descriptor of a later
\* type and before every descriptor of its type that starts later in the
\* file; the vector is fixed by the file, whatever the order in which the
\* tasks finished.
C23_IndexSortedByTypeAndStart ==
    (bidx.phase = "returned" /\ AllDecode) =>
        /\ Len(bidx.result) = Len(bidx.file)
        /\ Range(bidx.result) = {Descriptor(bidx.file, k) : k \in 1..Len(bidx.file)}
        /\ \A i, j \in 1..Len(bidx.result) :
               i < j =>
                   \/ BlockTypeOrd(bidx.result[i].block_type)
                          < BlockTypeOrd(bidx.result[j].block_type)
                   \/ /\ bidx.result[i].block_type = bidx.result[j].block_type
                      /\ bidx.result[i].blob_start < bidx.result[j].blob_start

\* C23 witness: the index of a file whose types are not in order, with two
\* blocks of one type, collected in an order that is neither that of the
\* file nor that of the index.
C23_Witness ==
    /\ bidx.phase = "returned"
    /\ AllDecode
    /\ Len(bidx.file) >= 3
    /\ bidx.collected # bidx.result
    /\ bidx.collected # [k \in 1..Len(bidx.file) |-> Descriptor(bidx.file, k)]
    /\ bidx.result # [k \in 1..Len(bidx.file) |-> Descriptor(bidx.file, k)]
    /\ \E i, j \in 1..Len(bidx.file) :
           i # j /\ bidx.file[i].block_type = bidx.file[j].block_type

\* ---- reading tags (osmflat/src/tags.rs)

\* the tags of the range of the last call, as iter_tags yields them
RangeTags == IterTags(rd.archive, rd.first, rd.last)

\* the positions in the range of the tags whose key is the key asked for
KeyHits == {j \in 1..Len(RangeTags) : RangeTags[j][1] = rd.key}

FirstOf(S) == CHOOSE j \in S : \A k \in S : j <= k

\* what has_tag is to return: the first tag with the key decides
HasTagExpected ==
    IF KeyHits = {} THEN FALSE ELSE RangeTags[FirstOf(KeyHits)][2] = rd.value

FindTagExpected ==
    IF KeyHits = {} THEN None ELSE Some(RangeTags[FirstOf(KeyHits)][2])

\* C25 as stated: for every key, find_tag returns the trimmed value of the
\* first tag of the range whose key is exactly the key (a stored key that
\* only starts with the key does not count), and None when there is none.
C25_FindTagExactKey ==
    rd.op = "find_tag" => rd.result = FindTagExpected

\* C25 amended: for a key without NUL byte, find_tag returns the trimmed
\* value of the first tag of the range whose key is exactly the key (a stored
\* key that only starts with the key does not count), and None when there is
\* none.
C25_FindTagExactKeyNulFree ==
    (rd.op = "find_tag" /\ NulFree(rd.key)) => rd.result = FindTagExpected

\* C25 witness: find_tag returned the value of a tag that stands in the range
\* behind a tag whose key is longer and starts with the key asked for.
C25_Witness ==
    /\ rd.op = "find_tag" /\ NulFree(rd.key) /\ rd.key # <<>>
    /\ KeyHits # {}
    /\ rd.result = Some(RangeTags[FirstOf(KeyHits)][2])
    /\ \E j \in 1..Len(RangeTags) :
           /\ j < FirstOf(KeyHits)
           /\ Len(RangeTags[j][1]) > Len(rd.key)
           /\ SubSeq(RangeTags[j][1], 1, Len(rd.key)) = rd.key

\* the blocks of the j-th tag of the range: the string table from the key
\* offset and from the value offset to its end
RangeBlocks(j) ==
    LET tag == TagAt(rd.archive, rd.first + j - 1)
    IN  <<BlockAt(rd.archive.blob, tag.key_idx),
          BlockAt(rd.archive.blob, tag.value_idx)>>

\* the positions in the range of the tags the predicate holds for
PredicateHits ==
    {j \in 1..Len(RangeTags) :
        ApplyPredicate(rd.p, RangeBlocks(j)[1], RangeBlocks(j)[2])}

\* C26: find_tag_by calls the predicate on the untrimmed blocks of the tags
\* of the range in order, up to and including the first tag the predicate
\* holds for, and returns the trimmed value of that tag; when the predicate
\* holds for no tag it has been called on every tag and the result is None.
C26_FindTagByStopsAtFirst ==
    rd.op = "find_tag_by" =>
        LET n == IF PredicateHits = {} THEN Len(RangeTags)
                 ELSE FirstOf(PredicateHits)
        IN  /\ rd.calls = [j \in 1..n |-> RangeBlocks(j)]
            /\ rd.result = IF PredicateHits = {} THEN None
                           ELSE Some(RangeTags[n][2])

\* C26 witness: the predicate held for the second of three tags of the
\* range, was called twice, on blocks that run past the NUL of the key, and
\* the value of the second tag was returned.
C26_Witness ==
    /\ rd.op = "find_tag_by"
    /\ Len(RangeTags) = 3
    /\ PredicateHits # {} /\ FirstOf(PredicateHits) = 2
    /\ Len(rd.calls) = 2
    /\ Len(rd.calls[2][1]) > Len(RangeTags[2][1]) + 1
    /\ rd.result = Some(RangeTags[2][2])

\* ---- termination of parallel_process (osmflatc/src/parallel.rs)

\* the call has returned Ok, every item was consumed once and in order, and
\* every worker thread has left its loop
ReturnedOk ==
    /\ mpc = "returned" /\ ret = "Ok"
    /\ consumed = [k \in 1..num_items |-> k - 1]
    /\ \A w \in Workers : wpc[w] = "exit"

\* C27: under fair scheduling a call in which consume never fails ends with
\* every item consumed exactly once, every worker exited and Ok returned,
\* for every number of workers and of items (a run in which consume fails
\* is a run in which ret becomes Err).
C27_TerminatesWhenConsumeSucceeds == <>(ret = "Err" \/ ReturnedOk)

\* C27 witness: a call with more items than twice the workers has returned
\* Ok with every item consumed.
C27_Witness ==
    /\ ReturnedOk
    /\ num_items > 2 * num_threads

\* C28: after consume has returned an error every worker ends normally: no
\* worker has failed in its send to the dropped channel and none is left
\* waiting on the condition variable for a turn that will not come.
C28_WorkersEndNormallyAfterError ==
    ret = "Err" =>
        \A w \in Workers : wpc[w] # "panic" /\ ~BlockedForever(w)

\* ---- the turn of a worker (osmflatc/src/parallel.rs)

\* the items that were sent and are not yet delivered: in the channel or in
\* the pending map
SentItems == {channel[i] : i \in 1..Len(channel)} \cup pending

\* item j has been delivered: taken out of the pending map for consume
Delivered(j) == j < next_idx

\* C29 as stated: item k is not sent before item k-1 has been delivered.
C29_SentAfterPredecessorDelivered ==
    \A k \in SentItems : k >= 1 => Delivered(k - 1)

\* C29 amended: item k is not sent before item k - 2 * num_threads has been
\* delivered; a worker holding such an item is held at the condition
\* variable.
C29_SentAfterWindowDelivered ==
    /\ \A k \in SentItems : k >= 2 * num_threads => Delivered(k - 2 * num_threads)
    /\ \A w \in Workers :
           (wpc[w] = "wait" /\ witem[w] >= 2 * num_threads
            /\ ~Delivered(witem[w] - 2 * num_threads)) => ~ENABLED WorkerWait(w)

\* C29 witness: a worker has produced item k and is held at the condition
\* variable because item k - 2 * num_threads is not delivered, while earlier
\* items are in the channel.
C29_Witness ==
    \E w \in Workers :
        /\ wpc[w] = "wait"
        /\ witem[w] >= 2 * num_threads
        /\ ~Delivered(witem[w] - 2 * num_threads)
        /\ MustWait(next, witem[w])
        /\ channel # <<>>

\* ---- the threads of a phase (osmflatc/src/parallel.rs, main.rs)

\* what only the calling thread may touch: the string pool, the tag pool,
\* the columns and the builders of the id tables
CoordinatorOwned ==
    {"stringtable", "tags", "stats", "nodes", "node_ids", "ways", "way_ids",
     "nodes_index", "relations", "relation_ids", "relation_members",
     "nodes_id_to_idx_builder", "ways_id_to_idx_builder",
     "relations_id_to_idx_builder"}

\* two closures of a phase touch the same thing and one of them writes it
Conflict ==
    [s \in {"produce", "consume"}, t \in {"produce", "consume"} |->
        \E p \in Phases : \E a \in Touches(s, p) : \E b \in Touches(t, p) :
            a[1] = b[1] /\ (a[2] = "write" \/ b[2] = "write")]

\* a closure writes something, or touches what the coordinator owns
Owning ==
    [s \in {"produce", "consume"} |->
        \E p \in Phases : \E a \in Touches(s, p) :
            a[2] = "write" \/ a[1] \in CoordinatorOwned]

C31_DecodeFailureAborts ==
    bidx.phase = "returned" => \A k \in 1..Len(bidx.file) : bidx.file[k].decodes

\* ---- gcd (osmflatc/src/main.rs)

\* d divides n
Divides(d, n) == n % d = 0

\* C32: gcd(a, b) returns the greatest common divisor of a and b for all
\* positive a and b, coprime pairs and pairs with a 1 among them.
C32_GcdIsGreatestCommonDivisor ==
    (call.fn = "gcd" /\ call.result # NoCall) =>
        LET g == call.result.val
        IN  /\ g >= 1 /\ Divides(g, call.a) /\ Divides(g, call.b)
            /\ \A d \in 1..MaxGcdArg :
                   (Divides(d, call.a) /\ Divides(d, call.b)) => d <= g

\* ---- the order of the ids (osmflatc/src/ids.rs)

\* C33: insert takes strictly increasing ids only: the ids a builder holds
\* increase strictly, and an insert of an id that is not greater than the one
\* inserted last ends in the panic of the assertion; an insert of a greater
\* id does not.
C33_InsertRequiresIncreasingIds ==
    /\ \A i, j \in 1..Len(id_inserted) : i < j => id_inserted[i] < id_inserted[j]
    /\ (id_phase = "building" /\ idb.last_id.tag = "Some") =>
           \A x \in IdChoices :
               IF x <= idb.last_id.val
               THEN ~ENABLED (IdInsert(x) /\ id_phase' # "panicked")
               ELSE ~ENABLED (IdInsert(x) /\ id_phase' = "panicked")

\* C33 witness: after two inserts an id that is not greater than the last
\* one was inserted and the builder panicked.
C33_Witness ==
    /\ id_phase = "panicked"
    /\ Len(id_inserted) >= 2
    /\ \E x \in IdChoices : x <= idb.last_id.val

\* ---- the representation of a bucket (osmflatc/src/ids.rs)

\* the ids of q that fall into bucket b (from 0), cut to the bucket
RECURSIVE BucketIds(_, _)
BucketIds(q, b) ==
    IF q = <<>> THEN <<>>
    ELSE (IF Head(q) \div ID_BLOCK_SIZE = b THEN <<Head(q) % ID_BLOCK_SIZE>> ELSE <<>>)
         \o BucketIds(Tail(q), b)

\* the table of the same inserts with every bucket kept as a sorted list
PurelySparseTable ==
    BuildScan([b \in 1..Len(idb.data) |-> Sparse(BucketIds(id_inserted, b - 1))], 0)

\* a bucket of the built table is a bitset
SomeBucketDense == \E b \in 1..Len(idt_data) : idt_data[b].block.kind = "Dense"

\* C34: once a bucket has been turned into a bitset, get still returns the
\* rank of every inserted id and None for every other id, the results of a
\* purely sparse table of the same inserts.
C34_DenseAnswersAsSparse ==
    (id_phase = "built" /\ id_res # NoCall /\ SomeBucketDense) =>
        /\ id_res = InsertedRank(id_x)
        /\ id_res = IdTableGet(PurelySparseTable, id_x)

\* The part of C34 that the code meets: the same for every id whose bucket
\* is not the one just past the last bucket of the table; for an id of that
\* bucket both tables panic.
DenseAnswersAsSparseInsideTable ==
    (id_phase = "built" /\ id_res # NoCall /\ SomeBucketDense) =>
        /\ id_x \div ID_BLOCK_SIZE # Len(idt_data) => id_res = InsertedRank(id_x)
        /\ id_res = IdTableGet(PurelySparseTable, id_x)

\* ---- the buffers of the string table (osmflatc/src/strings.rs)

\* no buffer holds more than the capacity it was created with, no insert
\* made a buffer grow, and every key of the map points at the start of a
\* string that was inserted, up to its first NUL
BuffersNeverGrow ==
    /\ ~stringtable.moved
    /\ \A b \in 1..Len(stringtable.data) :
           /\ Len(stringtable.data[b].bytes) <= stringtable.data[b].capacity
           /\ stringtable.data[b].capacity >= BufferCapacity
    /\ \A e \in stringtable.indexed_data :
           \E p \in st_hist : KeyBytes(stringtable, e) = CStr(Append(p[1], 0), 1)

\* a step leaves every key of the map in the map, pointing at the same bytes
KeysStay ==
    \A e \in stringtable.indexed_data :
        /\ \E f \in stringtable'.indexed_data : f.buf = e.buf /\ f.pos = e.pos
        /\ KeyBytes(stringtable', e) = KeyBytes(stringtable, e)

\* C35: the string table never relocates stored bytes: the buffer that
\* receives a string has room for it and its terminator, so that no buffer
\* grows past the capacity it was created with, and every key of the dedup
\* map keeps pointing at the same NUL-terminated string.
C35_BuffersNeverRelocate == []BuffersNeverGrow /\ [][KeysStay]_vars

\* C35 witness: a string larger than the usual capacity has a buffer of its
\* own between two other buffers, one of them full, and nothing has moved.
C35_Witness ==
    /\ ~stringtable.moved
    /\ Len(stringtable.data) >= 3
    /\ \E b \in 1..Len(stringtable.data) :
           stringtable.data[b].capacity > BufferCapacity
    /\ \E b \in 1..Len(stringtable.data) :
           Len(stringtable.data[b].bytes) = BufferCapacity

\* ---- the offsets of the string table (osmflatc/src/strings.rs)

\* the sum of the lengths of the first n buffers
RECURSIVE BuffersLen(_, _)
BuffersLen(st, n) ==
    IF n = 0 THEN 0 ELSE BuffersLen(st, n - 1) + Len(st.data[n].bytes)

TotalLen(st) == BuffersLen(st, Len(st.data))

\* size_in_bytes is the sum of the lengths of the buffers, and the bytes
\* returned by into_bytes are the buffers in the order of their creation
SizeIsSumOfBuffers ==
    /\ stringtable.size_in_bytes = TotalLen(stringtable)
    /\ st_phase = "finalized" =>
           /\ Len(st_blob) = stringtable.size_in_bytes
           /\ \A b \in 1..Len(stringtable.data) :
                  \A i \in 1..Len(stringtable.data[b].bytes) :
                      st_blob[BuffersLen(stringtable, b - 1) + i]
                          = stringtable.data[b].bytes[i]

\* an insert that stores a string returns the number of bytes stored before
\* it and stores the string and its terminator, in the last buffer or in a
\* new one
NewStringAtEnd ==
    stringtable'.data # stringtable.data =>
        \E p \in st_hist' :
            /\ p[2] = TotalLen(stringtable)
            /\ TotalLen(stringtable') = TotalLen(stringtable) + Len(p[1]) + 1
            /\ Len(stringtable'.data) \in {Len(stringtable.data), Len(stringtable.data) + 1}
            /\ LET last == stringtable'.data[Len(stringtable'.data)].bytes
               IN  SubSeq(last, Len(last) - Len(p[1]), Len(last)) = Append(p[1], 0)

\* C36: after every insert size_in_bytes is the sum of the lengths of the
\* buffers, the offset returned for a new string is the number of bytes
\* stored before it (in the current buffer, in a new buffer, or in a buffer
\* of its own for a string larger than the usual capacity), and into_bytes
\* is the buffers in creation order.
C36_OffsetsAreRunningSize == []SizeIsSumOfBuffers /\ [][NewStringAtEnd]_vars

\* C36 witness: into_bytes of a table in which a string larger than the
\* usual capacity has a buffer of its own between two other buffers, as in
\* test_large_insert.
C36_Witness ==
    /\ st_phase = "finalized"
    /\ Len(stringtable.data) = 3
    /\ stringtable.data[2].capacity > BufferCapacity
    /\ stringtable.data[1].bytes # <<>> /\ stringtable.data[3].bytes # <<>>
    /\ st_repeated

\* a coordinate of the valid range: at most 90 degrees of latitude and 180
\* degrees of longitude to either side, in the units of the model
\* (90e9 / 2^20 and 180e9 / 2^20)
InValidRange(c) ==
    /\ -85830 <= c.lat /\ c.lat <= 85830
    /\ -171661 <= c.lon /\ c.lon <= 171661

\* C37: every stored node coordinate of the valid range (at most 90
\* degrees of latitude and 180 degrees of longitude to either side) is the
\* integer quotient of offset + block granularity * sum of deltas by the
\* divisor g that run derived from the block granularities: the quotient
\* fits the lat and lon fields and is stored as it is, not wrapped.
C37_CoordinatesAreQuotientsUnwrapped ==
    (coords.phase = "nodes" /\ Len(coords.nodes) = Len(coords.fixed)) =>
        \A i \in 1..Len(coords.nodes) :
            InValidRange(coords.fixed[i]) =>
                /\ coords.nodes[i].lat
                       = TruncDiv(coords.fixed[i].lat, coords.granularity)
                /\ coords.nodes[i].lon
                       = TruncDiv(coords.fixed[i].lon, coords.granularity)

\* C38: on every tag range of a well-formed archive and for every key and
\* value without NUL byte, has_tag(range, key, value) is true exactly when
\* find_tag(range, key) returns Some(value): what a call of has_tag
\* returned agrees with find_tag on the same range and key, and what a call
\* of find_tag returned agrees with has_tag for every value.
C38_HasTagIffFindTagReturnsValue ==
    /\ (rd.op = "has_tag" /\ NulFree(rd.key) /\ NulFree(rd.value)) =>
           (rd.result = Some(TRUE)
               <=> FindTag(rd.archive, rd.first, rd.last, rd.key).result
                       = Some(rd.value))
    /\ (rd.op = "find_tag" /\ NulFree(rd.key)) =>
           \A value \in {v \in QueryChoices : NulFree(v)} :
               HasTag(rd.archive, rd.first, rd.last, rd.key, value)
                   <=> rd.result = Some(value)

\* C38 witness: has_tag returned true for a key and a value on a range of
\* several tags whose first tag has another key, and find_tag returns the
\* value for the key on that range.
C38_Witness ==
    /\ rd.op = "has_tag" /\ NulFree(rd.key) /\ NulFree(rd.value)
    /\ rd.result = Some(TRUE)
    /\ rd.last - rd.first >= 2
    /\ RangeTags[1][1] # rd.key
    /\ FindTag(rd.archive, rd.first, rd.last, rd.key).result = Some(rd.value)

\* the fields of the block given to from_osmdata_blob that are
\* primitivegroups
GroupFields == {i \in 1..Len(call.fields) : call.fields[i].key = 2}

\* the field numbers of the sub-fields of the first primitivegroup
FirstGroup == call.fields[FirstOf(GroupFields)].numbers

\* C39: from_osmdata_blob returns the block type named by the field number
\* of the first sub-field of the first primitivegroup of the block (1
\* Nodes, 2 DenseNodes, 3 Ways, 4 Relations), whatever fields stand before
\* that primitivegroup, and panics on a block of changesets (field 5).
C39_ClassifiedByFirstSubField ==
    (call.fn = "from_osmdata_blob" /\ call.result # NoCall
         /\ GroupFields # {} /\ FirstGroup # <<>>
         /\ FirstGroup[1] \in 1..5) =>
        call.result = CASE FirstGroup[1] = 1 -> Ok("Nodes")
                        [] FirstGroup[1] = 2 -> Ok("DenseNodes")
                        [] FirstGroup[1] = 3 -> Ok("Ways")
                        [] FirstGroup[1] = 4 -> Ok("Relations")
                        [] FirstGroup[1] = 5 -> Panic

\* C39 witness: a block whose primitivegroup of ways stands behind a
\* stringtable and a granularity was classified as Ways.
C39_Witness ==
    /\ call.fn = "from_osmdata_blob"
    /\ call.result = Ok("Ways")
    /\ Len(call.fields) = MaxBlobFields
    /\ call.fields[1].key = 1 /\ call.fields[2].key = 17
    /\ FirstGroup = <<3, 3>>

\* the entries of the result that stand for the k-th blob of the file
EntriesOf(k) ==
    {i \in 1..Len(midx.result) : midx.result[i] = Descriptor(midx.file, k)}

\* C40: when build_block_index over the shared iterator returns, with a
\* pool of any size, one thread included, every blob of the file that
\* decodes was taken from the iterator and classified by exactly one task
\* and stands exactly once in the result, and the result is sorted.
C40_EveryBlobIndexedOnce ==
    midx.phase = "returned" =>
        /\ \A k \in 1..Len(midx.file) :
               midx.file[k].decodes =>
                   /\ Cardinality(midx.by[k]) = 1
                   /\ Cardinality(EntriesOf(k)) = 1
        /\ \A i, j \in 1..Len(midx.result) :
               i < j => ~BlockIndexLess(midx.result[j], midx.result[i])

====
